---- MODULE Spec2Model ----
(***************************************************************************)
(* Model of the gloq_massing placement engine: geometry kernel, building   *)
(* spec, sheaf (floor patches + vertical stalks), constraint system, fuzzy *)
(* scaling and the solve_massing pipeline.                                 *)
(*                                                                         *)
(* Numbers.  The program computes with floats.  Lengths are modelled as    *)
(* fixed-point integers, U units to the foot; dimensions are even numbers  *)
(* of units, so that half a dimension is exact.  Areas are in units^2.     *)
(* Memberships are in hundredths (0..100).  The inputs are integer feet,   *)
(* so every quantity of the placement pipeline except the fuzzy scale      *)
(* factors and Euclidean distances is represented exactly; those two are   *)
(* rounded to the resolution.                                              *)
(*                                                                         *)
(* Identifiers.  Python strings are modelled as sequences of tokens, a     *)
(* decimal number being one token per digit, so that str.startswith is     *)
(* the prefix relation on sequences ("stair_1" is a prefix of "stair_10"). *)
(***************************************************************************)
EXTENDS Integers, Sequences, FiniteSets, TLC

VARIABLES
    pc,        \* position of the running call
    building,  \* the BuildingSpec given to solve_massing
    config,    \* the SolverConfig given to solve_massing
    patches,   \* Sheaf.patches: floor index -> FloorPatch
    stalks,    \* Sheaf.stalks: sequence of VerticalStalk
    floor_pos, \* index of the next floor of the placement loop
    processed, \* the floors place_floor_spaces has been called for
    result     \* SolverResult / value returned by the operation under test

vars == <<pc, building, config, patches, stalks, floor_pos, processed, result>>

(***************************************************************************)
(* Fixed-point arithmetic                                                  *)
(***************************************************************************)
U == 20

\* a local variable of the code: Body at the value v, v evaluated once
Bind(v, Body(_)) == Body(v)

Abs(n) == IF n < 0 THEN -n ELSE n
Min2(a, b) == IF a <= b THEN a ELSE b
Max2(a, b) == IF a >= b THEN a ELSE b

\* Python int(): truncation toward zero of n/d (d > 0)
Trunc(n, d) == IF n >= 0 THEN n \div d ELSE -((-n) \div d)

\* n/d rounded to the nearest integer (n >= 0, d > 0)
RDiv(n, d) == (2 * n + d) \div (2 * d)

\* math.ceil(n/d), d > 0
CeilDiv(n, d) == -((-n) \div d)

RECURSIVE IsqrtBetween(_, _, _)
IsqrtBetween(n, lo, hi) ==
    IF lo >= hi THEN lo
    ELSE LET mid == (lo + hi + 1) \div 2
         IN  IF mid * mid <= n THEN IsqrtBetween(n, mid, hi)
             ELSE IsqrtBetween(n, lo, mid - 1)

\* floor(sqrt(n)), n >= 0
Isqrt(n) == IsqrtBetween(n, 0, Min2(n, 46340))

SetMin(S) == CHOOSE m \in S : \A n \in S : m <= n
SetMax(S) == CHOOSE m \in S : \A n \in S : m >= n

RECURSIVE SeqSum(_)
SeqSum(s) ==
    IF Len(s) = 0 THEN 0
    ELSE IF Len(s) = 1 THEN s[1]
    ELSE SeqSum(SubSeq(s, 1, Len(s) \div 2)) + SeqSum(SubSeq(s, Len(s) \div 2 + 1, Len(s)))

\* range(a, b, step) as a sequence (step > 0)
RECURSIVE PyRange(_, _, _)
PyRange(a, b, step) ==
    IF a >= b THEN <<>> ELSE <<a>> \o PyRange(a + step, b, step)

(***************************************************************************)
(* Identifiers                                                             *)
(***************************************************************************)
DigitChars == <<"0", "1", "2", "3", "4", "5", "6", "7", "8", "9">>

RECURSIVE Digits(_)
\* str(n) for n >= 0, one token per decimal digit
Digits(n) ==
    IF n < 10 THEN <<DigitChars[n + 1]>>
    ELSE Digits(n \div 10) \o <<DigitChars[(n % 10) + 1]>>

\* str(n) for any integer
IntStr(n) == IF n < 0 THEN <<"-">> \o Digits(-n) ELSE Digits(n)

\* s.startswith(p)
StartsWith(s, p) == Len(p) <= Len(s) /\ SubSeq(s, 1, Len(p)) = p

(***************************************************************************)
(* Geometry kernel (geometry.py)                                           *)
(***************************************************************************)
Point(x, y) == [x |-> x, y |-> y]

\* Rectangle.__post_init__: rotation normalised to [0, 360)
Rectangle(x, y, w, h, rot) ==
    [x |-> x, y |-> y, width |-> w, height |-> h, rotation |-> rot % 360]

\* cos and sin of the rotations the solver uses (multiples of 90 degrees)
Cos(rot) == CASE rot = 0 -> 1 [] rot = 90 -> 0 [] rot = 180 -> -1 [] rot = 270 -> 0
Sin(rot) == CASE rot = 0 -> 0 [] rot = 90 -> 1 [] rot = 180 -> 0 [] rot = 270 -> -1

EffectiveWidth(r) ==
    Abs(r.width * Cos(r.rotation)) + Abs(r.height * Sin(r.rotation))
EffectiveHeight(r) ==
    Abs(r.width * Sin(r.rotation)) + Abs(r.height * Cos(r.rotation))

Left(r) == r.x - EffectiveWidth(r) \div 2
Right(r) == r.x + EffectiveWidth(r) \div 2
Bottom(r) == r.y - EffectiveHeight(r) \div 2
Top(r) == r.y + EffectiveHeight(r) \div 2

\* Rectangle.corners: counter-clockwise, rotated by R(theta)
Corners(r) ==
    LET hw == r.width \div 2
        hh == r.height \div 2
        c == Cos(r.rotation)
        s == Sin(r.rotation)
        local == << <<-hw, -hh>>, <<hw, -hh>>, <<hw, hh>>, <<-hw, hh>> >>
    IN  [i \in 1..4 |->
            Point(r.x + local[i][1] * c - local[i][2] * s,
                  r.y + local[i][1] * s + local[i][2] * c)]

Sign(n) == IF n > 0 THEN 1 ELSE IF n < 0 THEN -1 ELSE 0

\* get_axes: unit normals (-edge.y, edge.x)/length of the edges of non-zero
\* length; the edges are axis-parallel, so the unit normal is a sign vector
GetAxes(corners) ==
    LET n == Len(corners)
        edge(i) == Point(corners[(i % n) + 1].x - corners[i].x,
                         corners[(i % n) + 1].y - corners[i].y)
        all == [i \in 1..n |-> edge(i)]
        nonzero == SelectSeq(all, LAMBDA e : e.x # 0 \/ e.y # 0)
    IN  [i \in 1..Len(nonzero) |->
            Point(-Sign(nonzero[i].y), Sign(nonzero[i].x))]

\* project: (min, max) of the corners' dot products with the axis
ProjectMin(corners, axis) ==
    SetMin({corners[i].x * axis.x + corners[i].y * axis.y : i \in 1..Len(corners)})
ProjectMax(corners, axis) ==
    SetMax({corners[i].x * axis.x + corners[i].y * axis.y : i \in 1..Len(corners)})

\* the 0.001 ft tolerance of the separation test, in thousandths of a foot
SatTolMilli == 1

FirstTwo(s) == SubSeq(s, 1, Min2(2, Len(s)))

\* a separation test that takes touching projections as overlapping
SeparatedStrictly(ca, cb, axis) ==
    \/ ProjectMax(ca, axis) < ProjectMin(cb, axis)
    \/ ProjectMax(cb, axis) < ProjectMin(ca, axis)

\* Rectangle.intersects: separating axis test, max_a <= min_b + 0.001
Separated(ca, cb, axis) ==
    \/ 1000 * ProjectMax(ca, axis) <= 1000 * ProjectMin(cb, axis) + SatTolMilli * U
    \/ 1000 * ProjectMax(cb, axis) <= 1000 * ProjectMin(ca, axis) + SatTolMilli * U

Intersects(a, b) ==
    LET ca == Corners(a)
        cb == Corners(b)
        axes == FirstTwo(GetAxes(ca)) \o FirstTwo(GetAxes(cb))
    IN  \A i \in 1..Len(axes) : ~Separated(ca, cb, axes[i])

\* Rectangle.intersection_area (bounding-box overlap), in units^2
IntersectionArea(a, b) ==
    LET x_overlap == Max2(0, Min2(Right(a), Right(b)) - Max2(Left(a), Left(b)))
        y_overlap == Max2(0, Min2(Top(a), Top(b)) - Max2(Bottom(a), Bottom(b)))
    IN  x_overlap * y_overlap

\* Rectangle.shared_edge_length with tolerance 0.1 ft
EdgeTolTenths == 1
SharedEdgeLength(a, b) ==
    LET tol == (EdgeTolTenths * U) \div 10
        y_overlap == Min2(Top(a), Top(b)) - Max2(Bottom(a), Bottom(b))
        x_overlap == Min2(Right(a), Right(b)) - Max2(Left(a), Left(b))
        vertical == Abs(Right(a) - Left(b)) < tol \/ Abs(Left(a) - Right(b)) < tol
        horizontal == Abs(Top(a) - Bottom(b)) < tol \/ Abs(Bottom(a) - Top(b)) < tol
    IN  IF vertical /\ y_overlap > 0 THEN y_overlap
        ELSE IF horizontal /\ x_overlap > 0 THEN x_overlap
        ELSE 0

\* Rectangle.from_bounds
FromBounds(x_min, y_min, x_max, y_max) ==
    Rectangle((x_min + x_max) \div 2, (y_min + y_max) \div 2,
              x_max - x_min, y_max - y_min, 0)

\* Polygon.rectangle(width, height) centred on the origin: the vertex list
PolygonRectangle(width, height) ==
    LET hw == width \div 2
        hh == height \div 2
    IN  << Point(-hw, -hh), Point(hw, -hh), Point(hw, hh), Point(-hw, hh) >>

\* Polygon.bounding_box
BoundingBox(poly) ==
    LET xs == {poly[i].x : i \in 1..Len(poly)}
        ys == {poly[i].y : i \in 1..Len(poly)}
    IN  FromBounds(SetMin(xs), SetMin(ys), SetMax(xs), SetMax(ys))

\* one edge (vi, vj) of the ray-casting loop: does the ray from p cross it?
\*   (vi.y > p.y) != (vj.y > p.y) and
\*   p.x < (vj.x - vi.x) * (p.y - vi.y) / (vj.y - vi.y) + vi.x
RayCrosses(vi, vj, p) ==
    /\ (vi.y > p.y) # (vj.y > p.y)
    /\ LET num == (vj.x - vi.x) * (p.y - vi.y)
           den == vj.y - vi.y
       IN  IF den > 0 THEN (p.x - vi.x) * den < num
           ELSE (p.x - vi.x) * den > num

\* Polygon.contains_point: parity of the crossings
PolyContainsPoint(poly, p) ==
    LET n == Len(poly)
        prev(i) == IF i = 1 THEN n ELSE i - 1
    IN  Cardinality({i \in 1..n : RayCrosses(poly[i], poly[prev(i)], p)}) % 2 = 1

\* Polygon.contains_rectangle: all four corners inside
PolyContainsRectangle(poly, r) ==
    \A i \in 1..4 : PolyContainsPoint(poly, Corners(r)[i])

\* Point.distance_to, rounded down to the unit
DistanceTo(p, q) == Isqrt((p.x - q.x) * (p.x - q.x) + (p.y - q.y) * (p.y - q.y))

(***************************************************************************)
(* Domain model (building.py)                                              *)
(***************************************************************************)
\* Optional[float] = None for a dimension, Optional[Point] = None
NoDim == -1
NoPos == [placed |-> FALSE, x |-> 0, y |-> 0]
Pos(x, y) == [placed |-> TRUE, x |-> x, y |-> y]

\* a quotient n/d of lengths as a dimension: rounded to an even number of units
Dim(n, d) == 2 * RDiv(n, 2 * d)

\* math.sqrt of an area in square feet, as a dimension in units
SqrtFt(area_sf) == 2 * RDiv(Isqrt(area_sf * U * U), 2)

\* SpaceSpec(...) with __post_init__: missing dimensions derived from the area
SpaceSpec(id, category, name, area_sf, width_ft, height_ft, count, floor_assignment, is_vertical) ==
    LET w == IF width_ft = NoDim /\ height_ft = NoDim THEN SqrtFt(area_sf)
             ELSE IF width_ft = NoDim THEN Dim(area_sf * U * U, height_ft)
             ELSE width_ft
        h == IF width_ft = NoDim /\ height_ft = NoDim THEN SqrtFt(area_sf)
             ELSE IF height_ft = NoDim THEN Dim(area_sf * U * U, width_ft)
             ELSE height_ft
    IN  [id |-> id, category |-> category, name |-> name, area_sf |-> area_sf,
         width_ft |-> w, height_ft |-> h, count |-> count,
         floor_assignment |-> floor_assignment, is_vertical |-> is_vertical,
         dwelling_type |-> "none"]

\* DwellingUnit(...): category and floor assignment forced by __post_init__
DwellingUnit(id, name, area_sf, width_ft, height_ft, count, dwelling_type) ==
    [SpaceSpec(id, "DWELLING_UNIT", name, area_sf, width_ft, height_ft, count,
               "TYPICAL", FALSE) EXCEPT !.dwelling_type = dwelling_type]

\* CirculationSpec properties
ElevatorWidthFt == 8
ElevatorDepthDefaultFt == 7
StairWidthDefaultFt == 8
StairDepthDefaultFt == 12
FreightWidthFt == 10

ElevatorWidth(c) == ElevatorWidthFt * U
ElevatorDepth(c) ==
    IF c.elevator_passenger_sf # 0
    THEN Dim(c.elevator_passenger_sf * U * U, ElevatorWidth(c))
    ELSE ElevatorDepthDefaultFt * U
StairWidth(c) ==
    IF c.stair_sf # 0 THEN 2 * RDiv(Isqrt((c.stair_sf * U * U) \div 2), 2)
    ELSE StairWidthDefaultFt * U
StairDepth(c) ==
    IF StairWidth(c) # 0 THEN Dim(c.stair_sf * U * U, StairWidth(c))
    ELSE StairDepthDefaultFt * U

\* the names whose lower-case form contains 'lobby'
LobbyNames == {"Elevator Lobby", "Entry Lobby"}
NameHasLobby(name) == name \in LobbyNames

\* create_circulation_spaces
CreateCirculationSpaces(c) ==
    [i \in 1..c.elevator_passenger_count |->
        SpaceSpec(<<"elevator_passenger_">> \o Digits(i), "CIRCULATION",
                  "Passenger Elevator", c.elevator_passenger_sf,
                  ElevatorWidth(c), ElevatorDepth(c), 1, "VERTICAL", TRUE)]
    \o
    [i \in 1..c.elevator_freight_count |->
        SpaceSpec(<<"elevator_freight_">> \o Digits(i), "CIRCULATION",
                  "Freight Elevator", c.elevator_freight_sf,
                  FreightWidthFt * U,
                  Dim(c.elevator_freight_sf * U * U, FreightWidthFt * U),
                  1, "VERTICAL", TRUE)]
    \o
    [i \in 1..c.stair_count |->
        SpaceSpec(<<"stair_">> \o Digits(i), "CIRCULATION", "Stair",
                  c.stair_sf, StairWidth(c), StairDepth(c), 1, "VERTICAL", TRUE)]
    \o
    (IF c.vestibule_lobby_sf > 0
     THEN << SpaceSpec(<<"elevator_lobby">>, "CIRCULATION", "Elevator Lobby",
                       c.vestibule_lobby_sf, NoDim, NoDim, 1,
                       "ALL_RESIDENTIAL", FALSE) >>
     ELSE <<>>)

\* BuildingSpec.floor_plate_width
FloorPlateWidth(b) == SqrtFt(b.floor_plate_sf)

\* a get_floor_type that truncates the parking stories
GetFloorTypeTruncated(b, floor_index) ==
    IF floor_index < 0
    THEN IF b.underground_stalls > 0 THEN "PARKING_UNDERGROUND" ELSE "BASEMENT"
    ELSE IF floor_index = 0 THEN "GROUND"
    ELSE IF floor_index < Max2(1, b.parking_stories10 \div 10) /\ b.podium_stalls > 0
    THEN "PARKING_PODIUM"
    ELSE IF floor_index = b.stories_above_grade - 1 /\ b.amenity_outdoor # <<>>
    THEN "AMENITY"
    ELSE "RESIDENTIAL_TYPICAL"

\* BuildingSpec.get_floor_type; story_distribution.parking is in tenths
GetFloorType(b, floor_index) ==
    IF floor_index < 0
    THEN IF b.underground_stalls > 0 THEN "PARKING_UNDERGROUND" ELSE "BASEMENT"
    ELSE IF floor_index = 0 THEN "GROUND"
    ELSE LET parking_floors == CeilDiv(b.parking_stories10, 10)
             residential_start == Max2(1, parking_floors)
         IN  IF floor_index < residential_start /\ b.podium_stalls > 0
             THEN "PARKING_PODIUM"
             ELSE IF floor_index = b.stories_above_grade - 1
                     /\ b.amenity_outdoor # <<>>
             THEN "AMENITY"
             ELSE "RESIDENTIAL_TYPICAL"

(***************************************************************************)
(* Sheaf structure (sheaf.py)                                              *)
(***************************************************************************)
VerticalPriority == 100
UnitPriority == 10
SupportPriority == 5
OtherPriority == 1

\* Space(...) with __post_init__; membership 1.0 is 100 hundredths
Space(id, spec, floor_index, placement_priority) ==
    [id |-> id, spec |-> spec, floor_index |-> floor_index,
     position |-> NoPos, rotation |-> 0,
     actual_width |-> NoDim, actual_height |-> NoDim, membership |-> 100,
     placement_priority |->
        IF spec.is_vertical THEN VerticalPriority ELSE placement_priority]

IsPlaced(s) == s.position.placed

\* the w and h every property of Space starts from
ActualW(s) == IF s.actual_width # NoDim THEN s.actual_width ELSE s.spec.width_ft
ActualH(s) == IF s.actual_height # NoDim THEN s.actual_height ELSE s.spec.height_ft

\* Space.width / Space.height
SpaceWidth(s) == IF s.rotation \in {90, 270} THEN ActualH(s) ELSE ActualW(s)
SpaceHeight(s) == IF s.rotation \in {90, 270} THEN ActualW(s) ELSE ActualH(s)

\* Space.geometry raises ValueError when the space has no position
GeometryRaises(s) == ~IsPlaced(s)
Geometry(s) ==
    Rectangle(s.position.x, s.position.y, ActualW(s), ActualH(s), s.rotation)

\* Space.set_fuzzy_dimensions
SetFuzzyDimensions(s, width, height, membership) ==
    [s EXCEPT !.actual_width = width, !.actual_height = height,
              !.membership = membership]

\* Space.place(x, y, rotation=0)
Place(s, x, y, rotation) ==
    [s EXCEPT !.position = Pos(x, y), !.rotation = rotation % 360]

\* VerticalStalk(...)
VerticalStalk(id, element_type, spec, floor_range) ==
    [id |-> id, element_type |-> element_type, spec |-> spec,
     floor_range |-> floor_range, position |-> NoPos, rotation |-> 0]

\* VerticalStalk.place(x, y, rotation=0)
StalkPlace(st, x, y) == [st EXCEPT !.position = Pos(x, y), !.rotation = 0]

\* VerticalStalk.floors
StalkFloors(st) == PyRange(st.floor_range[1], st.floor_range[2] + 1, 1)

RECURSIVE SortedSeqOf(_)
SortedSeqOf(S) ==
    IF S = {} THEN <<>> ELSE <<SetMin(S)>> \o SortedSeqOf(S \ {SetMin(S)})

\* Sheaf.floor_indices: sorted(patches.keys())
FloorIndices(ps) == SortedSeqOf(DOMAIN ps)

\* Sheaf.max_floor
MaxFloor(ps) == IF DOMAIN ps # {} THEN SetMax(DOMAIN ps) ELSE 0

RECURSIVE ConcatSpaces(_, _)
ConcatSpaces(ps, floors) ==
    IF floors = <<>> THEN <<>>
    ELSE ps[Head(floors)].spaces \o ConcatSpaces(ps, Tail(floors))

\* Sheaf.get_all_spaces: the patches in insertion (ascending floor) order
GetAllSpaces(ps) == ConcatSpaces(ps, FloorIndices(ps))

\* FloorPatch.placed_spaces / unplaced_spaces
PlacedSpaces(patch) == SelectSeq(patch.spaces, IsPlaced)
UnplacedSpaces(patch) == SelectSeq(patch.spaces, LAMBDA s : ~IsPlaced(s))

\* FloorPatch.add_space
AddSpace(ps, floor_idx, space) ==
    [ps EXCEPT ![floor_idx].spaces =
        Append(@, [space EXCEPT !.floor_index = floor_idx])]

\* FloorPatch.check_boundary
CheckBoundary(patch, s) ==
    IsPlaced(s) /\ PolyContainsRectangle(patch.domain, Geometry(s))

\* the id of the instance of a stalk on a floor: f"{stalk.id}_f{floor_idx}"
InstanceId(stalk_id, floor_idx) == stalk_id \o <<"_f">> \o IntStr(floor_idx)

\* a propagation that matches only the bare stalk id and misses the per-floor
\* instances (mutation of PropagateToPatch)
PropagateToPatchBareId(patch, st) ==
    [patch EXCEPT !.spaces =
        [i \in 1..Len(patch.spaces) |->
            IF patch.spaces[i].id = st.id
            THEN Place(patch.spaces[i], st.position.x, st.position.y, st.rotation)
            ELSE patch.spaces[i]]]

\* a propagation that moves a placed instance by the stalk's position instead
\* of moving it to the stalk's position (mutation of PropagateToPatch)
PropagateToPatchRelative(patch, st) ==
    [patch EXCEPT !.spaces =
        [i \in 1..Len(patch.spaces) |->
            IF \/ patch.spaces[i].id = InstanceId(st.id, patch.index)
               \/ patch.spaces[i].id = st.id
            THEN Place(patch.spaces[i],
                       patch.spaces[i].position.x + st.position.x,
                       patch.spaces[i].position.y + st.position.y, st.rotation)
            ELSE patch.spaces[i]]]

\* a propagation that unplaces the rooms the instance it places runs into
\* (mutation of PropagateToPatch)
PropagateToPatchClearingOverlaps(patch, st) ==
    LET instance(s) == s.id = InstanceId(st.id, patch.index) \/ s.id = st.id
        hit(s) == /\ ~s.spec.is_vertical /\ IsPlaced(s)
                  /\ Intersects(Geometry(s), Geometry(Place(s, st.position.x, st.position.y, 0)))
    IN  [patch EXCEPT !.spaces =
            [i \in 1..Len(patch.spaces) |->
                IF instance(patch.spaces[i])
                THEN Place(patch.spaces[i], st.position.x, st.position.y, st.rotation)
                ELSE IF hit(patch.spaces[i])
                THEN [patch.spaces[i] EXCEPT !.position = NoPos, !.rotation = 0]
                ELSE patch.spaces[i]]]

\* propagate_stalk_positions, inner loops: one stalk, one patch
PropagateToPatch(patch, st) ==
    [patch EXCEPT !.spaces =
        [i \in 1..Len(patch.spaces) |->
            IF \/ patch.spaces[i].id = InstanceId(st.id, patch.index)
               \/ patch.spaces[i].id = st.id
            THEN Place(patch.spaces[i], st.position.x, st.position.y, st.rotation)
            ELSE patch.spaces[i]]]

PropagateStalk(ps, st) ==
    IF ~st.position.placed THEN ps
    ELSE [f \in DOMAIN ps |->
            IF f >= st.floor_range[1] /\ f <= st.floor_range[2]
            THEN PropagateToPatch(ps[f], st) ELSE ps[f]]

RECURSIVE PropagateFrom(_, _)
PropagateFrom(ps, sts) ==
    IF sts = <<>> THEN ps
    ELSE PropagateFrom(PropagateStalk(ps, Head(sts)), Tail(sts))

\* Sheaf.propagate_stalk_positions
PropagateStalkPositions(ps, sts) == PropagateFrom(ps, sts)

\* the overflow of a rectangle beyond a bounding box, summed over the four
\* sides (compute_cohomology and BoundaryConstraint.evaluate), in units
Overflow(geom, bbox) ==
    (IF Left(geom) < Left(bbox) THEN Left(bbox) - Left(geom) ELSE 0)
    + (IF Right(geom) > Right(bbox) THEN Right(geom) - Right(bbox) ELSE 0)
    + (IF Bottom(geom) < Bottom(bbox) THEN Bottom(bbox) - Bottom(geom) ELSE 0)
    + (IF Top(geom) > Top(bbox) THEN Top(geom) - Top(bbox) ELSE 0)

\* A violation is a float mixing feet and square feet.  It is represented in
\* units^2: a length of n units counts n * U, an area of n units^2 counts n.
LengthViolation(n) == n * U

\* compute_cohomology, boundary part of one patch
CohomologyBoundary(patch) ==
    LET placed == PlacedSpaces(patch)
    IN  SeqSum([i \in 1..Len(placed) |->
            IF ~CheckBoundary(patch, placed[i])
            THEN LengthViolation(Overflow(Geometry(placed[i]),
                                          BoundingBox(patch.domain)))
            ELSE 0])

\* an overlap sum that counts each overlapping pair in both orders (mutation
\* of CohomologyOverlap)
CohomologyOverlapBothOrders(patch) ==
    LET placed == PlacedSpaces(patch)
        n == Len(placed)
    IN  SeqSum([i \in 1..n |->
            SeqSum([j \in 1..n |->
                IF i = j THEN 0
                ELSE IntersectionArea(Geometry(placed[i]), Geometry(placed[j]))])])

\* compute_cohomology, overlap part of one patch
CohomologyOverlap(patch) ==
    LET placed == PlacedSpaces(patch)
        n == Len(placed)
    IN  SeqSum([i \in 1..n |->
            SeqSum([k \in 1..(n - i) |->
                IntersectionArea(Geometry(placed[i]), Geometry(placed[i + k]))])])

\* sum of |pos - ref| over positions[1:], ref = positions[0]
ManhattanFromFirst(positions) ==
    IF Len(positions) > 1
    THEN SeqSum([i \in 1..(Len(positions) - 1) |->
            LengthViolation(Abs(positions[i + 1].x - positions[1].x)
                            + Abs(positions[i + 1].y - positions[1].y))])
    ELSE 0

RECURSIVE StalkPositions(_, _, _)
\* the positions compute_cohomology collects for a stalk
StalkPositions(ps, st, floors) ==
    IF floors = <<>> THEN <<>>
    ELSE (IF Head(floors) \in DOMAIN ps
          THEN LET m == SelectSeq(ps[Head(floors)].spaces,
                           LAMBDA s : StartsWith(s.id, st.id) /\ IsPlaced(s))
               IN  [i \in 1..Len(m) |-> m[i].position]
          ELSE <<>>)
         \o StalkPositions(ps, st, Tail(floors))

\* compute_cohomology, alignment part of one stalk
CohomologyAlignment(ps, st) ==
    IF ~st.position.placed THEN 0
    ELSE ManhattanFromFirst(StalkPositions(ps, st, StalkFloors(st)))

\* Sheaf.compute_cohomology
ComputeCohomology(ps, sts) ==
    LET fl == FloorIndices(ps)
    IN  SeqSum([i \in 1..Len(fl) |->
            CohomologyBoundary(ps[fl[i]]) + CohomologyOverlap(ps[fl[i]])])
        + SeqSum([i \in 1..Len(sts) |-> CohomologyAlignment(ps, sts[i])])

(***************************************************************************)
(* construct_sheaf / assign_space_to_floors (sheaf.py)                     *)
(***************************************************************************)
\* spec.id.split('_')[0] for the ids create_circulation_spaces makes
FirstWord(id) ==
    CASE id[1] = "elevator_passenger_" -> "elevator"
      [] id[1] = "elevator_freight_" -> "elevator"
      [] id[1] = "stair_" -> "stair"
      [] OTHER -> id[1]

\* construct_sheaf: the floor patches
NewPatches(b) ==
    [f \in (-b.stories_below_grade)..(b.stories_above_grade - 1) |->
        [index |-> f,
         floor_type |-> GetFloorType(b, f),
         domain |-> PolygonRectangle(FloorPlateWidth(b), FloorPlateWidth(b)),
         spaces |-> <<>>]]

\* the floors assign_space_to_floors selects for a spec
AssignedFloors(ps, spec) ==
    LET fl == FloorIndices(ps)
        a == spec.floor_assignment
        chosen ==
            CASE a = "GROUND" -> <<0>>
              [] a = "BASEMENT" -> SelectSeq(fl, LAMBDA i : i < 0)
              [] a = "TYPICAL" ->
                    SelectSeq(fl, LAMBDA i : ps[i].floor_type = "RESIDENTIAL_TYPICAL")
              [] a = "ALL" -> fl
              [] a = "ALL_RESIDENTIAL" ->
                    SelectSeq(fl, LAMBDA i : ps[i].floor_type \in
                        {"RESIDENTIAL_TYPICAL", "GROUND", "PODIUM"})
              [] a = "ROOF" -> <<MaxFloor(ps)>>
              [] a = "PODIUM" ->
                    SelectSeq(fl, LAMBDA i : ps[i].floor_type = "PODIUM")
              [] OTHER -> <<>>
    IN  IF chosen = <<>> THEN <<0>> ELSE chosen

\* the instances assign_space_to_floors creates on one floor
FloorInstances(spec, floor_idx, n_floors) ==
    LET space_id == IF n_floors > 1 THEN InstanceId(spec.id, floor_idx)
                    ELSE spec.id
    IN  [j \in 1..spec.count |->
            Space(IF spec.count > 1 THEN space_id \o <<"_">> \o Digits(j)
                  ELSE space_id,
                  spec, floor_idx,
                  IF spec.category = "SUPPORT" THEN SupportPriority
                  ELSE OtherPriority)]

RECURSIVE AddSpaces(_, _, _)
AddSpaces(ps, floor_idx, spaces) ==
    IF spaces = <<>> THEN ps
    ELSE AddSpaces(AddSpace(ps, floor_idx, Head(spaces)), floor_idx, Tail(spaces))

RECURSIVE AssignToFloors(_, _, _, _)
AssignToFloors(ps, spec, floors, n_floors) ==
    IF floors = <<>> THEN ps
    ELSE AssignToFloors(
            IF Head(floors) \in DOMAIN ps
            THEN AddSpaces(ps, Head(floors),
                           FloorInstances(spec, Head(floors), n_floors))
            ELSE ps,
            spec, Tail(floors), n_floors)

\* assign_space_to_floors
AssignSpaceToFloors(ps, spec) ==
    AssignToFloors(ps, spec, AssignedFloors(ps, spec), Len(AssignedFloors(ps, spec)))

RECURSIVE AssignAll(_, _)
\* for spec in specs: assign_space_to_floors(sheaf, spec, building)
AssignAll(ps, specs) ==
    IF specs = <<>> THEN ps
    ELSE AssignAll(AssignSpaceToFloors(ps, Head(specs)), Tail(specs))

RECURSIVE AddStalkInstancesAboveGrade(_, _, _)
\* a construct_sheaf that gives the floors below grade no instance
AddStalkInstancesAboveGrade(ps, spec, floors) ==
    IF floors = <<>> THEN ps
    ELSE AddStalkInstancesAboveGrade(
            IF Head(floors) < 0 THEN ps
            ELSE AddSpace(ps, Head(floors),
                          Space(InstanceId(spec.id, Head(floors)), spec,
                                Head(floors), VerticalPriority)),
            spec, Tail(floors))

RECURSIVE AddStalkInstances(_, _, _)
\* construct_sheaf: the space instances of a vertical spec, one per floor
AddStalkInstances(ps, spec, floors) ==
    IF floors = <<>> THEN ps
    ELSE AddStalkInstances(
            AddSpace(ps, Head(floors),
                     Space(InstanceId(spec.id, Head(floors)), spec, Head(floors),
                           VerticalPriority)),
            spec, Tail(floors))

RECURSIVE AddCirculation(_, _, _)
\* construct_sheaf: the loop over the circulation specs (the patches)
AddCirculation(ps, circ_spaces, b) ==
    IF circ_spaces = <<>> THEN ps
    ELSE AddCirculation(
            IF Head(circ_spaces).is_vertical
            THEN AddStalkInstances(ps, Head(circ_spaces),
                    PyRange(-b.stories_below_grade, b.stories_above_grade, 1))
            ELSE AssignSpaceToFloors(ps, Head(circ_spaces)),
            Tail(circ_spaces), b)

\* construct_sheaf: the stalks, one per vertical circulation spec
NewStalks(b) ==
    LET v == SelectSeq(CreateCirculationSpaces(b.circulation),
                       LAMBDA sp : sp.is_vertical)
    IN  [i \in 1..Len(v) |->
            VerticalStalk(v[i].id, FirstWord(v[i].id), v[i],
                          <<-b.stories_below_grade, b.stories_above_grade - 1>>)]

DwellingTypes == {"studio", "1br", "2br", "3br"}

RECURSIVE AddUnitInstances(_, _, _, _, _)
\* construct_sheaf: for _ in range(unit_spec.count), from the k-th iteration;
\* start is unit_counter[unit_type] before the loop
AddUnitInstances(ps, unit_spec, start, k, residential_floors) ==
    IF k > unit_spec.count THEN ps
    ELSE LET n == start + k
             floor_idx == residential_floors[((n - 1) % Len(residential_floors)) + 1]
             space == Space(<<"unit_", unit_spec.dwelling_type, "_">> \o Digits(n),
                            unit_spec, floor_idx, UnitPriority)
         IN  AddUnitInstances(AddSpace(ps, floor_idx, space), unit_spec, start,
                              k + 1, residential_floors)

RECURSIVE AddUnits(_, _, _, _)
\* construct_sheaf: for unit_spec in building.dwelling_units
AddUnits(ps, unit_specs, unit_counter, residential_floors) ==
    IF unit_specs = <<>> THEN ps
    ELSE LET u == Head(unit_specs)
             t == u.dwelling_type
         IN  AddUnits(
                AddUnitInstances(ps, u, unit_counter[t], 1, residential_floors),
                Tail(unit_specs),
                [unit_counter EXCEPT ![t] = @ + u.count],
                residential_floors)

\* construct_sheaf: the patches of the sheaf it returns
ConstructPatches(b) ==
    LET p1 == AddCirculation(NewPatches(b),
                             CreateCirculationSpaces(b.circulation), b)
        residential_floors ==
            SelectSeq(FloorIndices(p1),
                      LAMBDA i : p1[i].floor_type = "RESIDENTIAL_TYPICAL")
        p2 == IF residential_floors # <<>>
              THEN AddUnits(p1, b.dwelling_units,
                            [t \in DwellingTypes |-> 0], residential_floors)
              ELSE p1
        p3 == AssignAll(p2, b.support_spaces)
        p4 == AssignAll(p3, b.staff_spaces)
        p5 == AssignAll(p4, b.amenity_indoor)
    IN  AssignAll(p5, b.mep_spaces)

(***************************************************************************)
(* Constraint system (constraints.py)                                      *)
(***************************************************************************)
\* spaces.get(id) on the dict {s.id: s for s in all_spaces}: the index of the
\* last space of the list with that id, 0 when there is none (None)
DictGet(all_spaces, id) ==
    LET hits == {i \in 1..Len(all_spaces) : all_spaces[i].id = id}
    IN  IF hits = {} THEN 0 ELSE SetMax(hits)

BoundaryConstraint(space_id, boundary) ==
    [kind |-> "BoundaryConstraint", space_id |-> space_id, boundary |-> boundary]
NonOverlapConstraint(a, b) ==
    [kind |-> "NonOverlapConstraint", space_a_id |-> a, space_b_id |-> b]
AlignmentConstraint(stalk_id, space_ids) ==
    [kind |-> "AlignmentConstraint", stalk_id |-> stalk_id, space_ids |-> space_ids]
AdjacencyConstraint(a, b, min_contact_ft) ==
    [kind |-> "AdjacencyConstraint", space_a_id |-> a, space_b_id |-> b,
     min_contact_ft |-> min_contact_ft]
MinimumDistanceConstraint(a, b, min_distance_ft) ==
    [kind |-> "MinimumDistanceConstraint", space_a_id |-> a, space_b_id |-> b,
     min_distance_ft |-> min_distance_ft]

\* the value an evaluate() returns, or the fact that it raised
Returned(v) == [raised |-> FALSE, value |-> v]
Raised == [raised |-> TRUE, value |-> 0]

\* BoundaryConstraint.evaluate
EvalBoundary(c, all_spaces) ==
    LET i == DictGet(all_spaces, c.space_id)
    IN  IF i = 0 \/ ~IsPlaced(all_spaces[i]) THEN Returned(0)
        ELSE IF GeometryRaises(all_spaces[i]) THEN Raised
        ELSE Returned(LengthViolation(
                Overflow(Geometry(all_spaces[i]), BoundingBox(c.boundary))))

\* NonOverlapConstraint.evaluate
EvalNonOverlap(c, all_spaces) ==
    LET i == DictGet(all_spaces, c.space_a_id)
        j == DictGet(all_spaces, c.space_b_id)
    IN  IF i = 0 \/ j = 0 THEN Returned(0)
        ELSE IF ~IsPlaced(all_spaces[i]) \/ ~IsPlaced(all_spaces[j]) THEN Returned(0)
        ELSE IF GeometryRaises(all_spaces[i]) \/ GeometryRaises(all_spaces[j])
        THEN Raised
        ELSE Returned(IntersectionArea(Geometry(all_spaces[i]),
                                       Geometry(all_spaces[j])))

\* AlignmentConstraint.evaluate
EvalAlignment(c, all_spaces) ==
    LET found == SelectSeq(c.space_ids,
                    LAMBDA id : DictGet(all_spaces, id) # 0
                                /\ IsPlaced(all_spaces[DictGet(all_spaces, id)]))
        positions == [k \in 1..Len(found) |->
                        all_spaces[DictGet(all_spaces, found[k])].position]
    IN  IF Len(positions) < 2 THEN Returned(0)
        ELSE Returned(ManhattanFromFirst(positions))

\* an adjacency evaluation that treats an absent space like an unplaced one
\* (mutation of EvalAdjacency)
EvalAdjacencyAbsentAsUnplaced(c, all_spaces) ==
    LET i == DictGet(all_spaces, c.space_a_id)
        j == DictGet(all_spaces, c.space_b_id)
    IN  IF i = 0 \/ j = 0 THEN Returned(0)
        ELSE IF ~IsPlaced(all_spaces[i]) \/ ~IsPlaced(all_spaces[j]) THEN Returned(0)
        ELSE LET shared_length == SharedEdgeLength(Geometry(all_spaces[i]),
                                                   Geometry(all_spaces[j]))
             IN  IF shared_length >= c.min_contact_ft THEN Returned(0)
                 ELSE Returned(LengthViolation(c.min_contact_ft - shared_length))

\* AdjacencyConstraint.evaluate
EvalAdjacency(c, all_spaces) ==
    LET i == DictGet(all_spaces, c.space_a_id)
        j == DictGet(all_spaces, c.space_b_id)
    IN  IF i = 0 \/ j = 0 THEN Returned(LengthViolation(c.min_contact_ft))
        ELSE IF ~IsPlaced(all_spaces[i]) \/ ~IsPlaced(all_spaces[j]) THEN Returned(0)
        ELSE IF GeometryRaises(all_spaces[i]) \/ GeometryRaises(all_spaces[j])
        THEN Raised
        ELSE LET shared_length == SharedEdgeLength(Geometry(all_spaces[i]),
                                                   Geometry(all_spaces[j]))
             IN  IF shared_length >= c.min_contact_ft THEN Returned(0)
                 ELSE Returned(LengthViolation(c.min_contact_ft - shared_length))

\* MinimumDistanceConstraint.evaluate
EvalMinimumDistance(c, all_spaces) ==
    LET i == DictGet(all_spaces, c.space_a_id)
        j == DictGet(all_spaces, c.space_b_id)
    IN  IF i = 0 \/ j = 0 THEN Returned(0)
        ELSE IF ~IsPlaced(all_spaces[i]) \/ ~IsPlaced(all_spaces[j]) THEN Returned(0)
        ELSE LET dist == DistanceTo(all_spaces[i].position, all_spaces[j].position)
             IN  IF dist >= c.min_distance_ft THEN Returned(0)
                 ELSE Returned(LengthViolation(c.min_distance_ft - dist))

\* Constraint.evaluate, dispatched on the class
Evaluate(c, all_spaces) ==
    CASE c.kind = "BoundaryConstraint" -> EvalBoundary(c, all_spaces)
      [] c.kind = "NonOverlapConstraint" -> EvalNonOverlap(c, all_spaces)
      [] c.kind = "AlignmentConstraint" -> EvalAlignment(c, all_spaces)
      [] c.kind = "AdjacencyConstraint" -> EvalAdjacency(c, all_spaces)
      [] c.kind = "MinimumDistanceConstraint" -> EvalMinimumDistance(c, all_spaces)

\* Constraint.get_involved_spaces
InvolvedSpaces(c) ==
    CASE c.kind = "BoundaryConstraint" -> {c.space_id}
      [] c.kind = "AlignmentConstraint" ->
            {c.space_ids[i] : i \in 1..Len(c.space_ids)}
      [] OTHER -> {c.space_a_id, c.space_b_id}

\* the ids get_involved_spaces() builds its set from, in the order given;
\* the space_ids of an alignment constraint are distinct
InvolvedList(c) ==
    CASE c.kind = "BoundaryConstraint" -> <<c.space_id>>
      [] c.kind = "AlignmentConstraint" -> c.space_ids
      [] OTHER -> IF c.space_a_id = c.space_b_id THEN <<c.space_a_id>>
                  ELSE <<c.space_a_id, c.space_b_id>>

\* The order in which a set of str is listed depends on the string hashes of
\* the process, which differ from one process to the next unless
\* PYTHONHASHSEED is fixed.  Of the listings a process can produce, the model
\* has the one in the order given and the reverse one.
HashSeeds == {0, 1}

Reverse(s) == [i \in 1..Len(s) |-> s[Len(s) + 1 - i]]

\* the members of c.get_involved_spaces() as formatting the set lists them
ReprSet(c, hash_seed) ==
    IF hash_seed = 0 THEN InvolvedList(c) ELSE Reverse(InvolvedList(c))

\* f"{c.__class__.__name__}: {c.get_involved_spaces()} = {v:.2f}": the class
\* name, the listed ids and v rounded to hundredths
ViolationMessage(e, hash_seed) ==
    [constraint |-> e.constraint, spaces |-> ReprSet(e.c, hash_seed),
     v |-> RDiv(100 * e.v, U * U)]

\* ConstraintSet.total_violation
TotalViolation(cs, all_spaces) ==
    SeqSum([i \in 1..Len(cs) |-> Evaluate(cs[i], all_spaces).value])

\* ConstraintSet.get_violations(spaces, tolerance=0.01): v > 0.01
DefaultTolerance100 == 1
GetViolations(cs, all_spaces) ==
    LET ev == [i \in 1..Len(cs) |->
                  [constraint |-> cs[i].kind, spaces |-> InvolvedSpaces(cs[i]),
                   c |-> cs[i], v |-> Evaluate(cs[i], all_spaces).value]]
    IN  SelectSeq(ev, LAMBDA e : 100 * e.v > DefaultTolerance100 * U * U)

RECURSIVE Flatten(_)
Flatten(ss) == IF ss = <<>> THEN <<>> ELSE Head(ss) \o Flatten(Tail(ss))

\* build_floor_constraints
BuildFloorConstraints(patch) ==
    LET sp == patch.spaces
        n == Len(sp)
    IN  [i \in 1..n |-> BoundaryConstraint(sp[i].id, patch.domain)]
        \o Flatten([i \in 1..n |->
                [k \in 1..(n - i) |-> NonOverlapConstraint(sp[i].id, sp[i + k].id)]])

RECURSIVE StalkSpaceIds(_, _, _)
\* build_sheaf_constraints: the space ids collected for a stalk
StalkSpaceIds(ps, st, floors) ==
    IF floors = <<>> THEN <<>>
    ELSE (IF Head(floors) \in DOMAIN ps
          THEN LET m == SelectSeq(ps[Head(floors)].spaces,
                                  LAMBDA s : StartsWith(s.id, st.id))
               IN  [i \in 1..Len(m) |-> m[i].id]
          ELSE <<>>)
         \o StalkSpaceIds(ps, st, Tail(floors))

\* build_sheaf_constraints: the alignment constraint of one stalk, if any
AlignmentConstraints(ps, st) ==
    LET space_ids == StalkSpaceIds(ps, st, StalkFloors(st))
    IN  IF Len(space_ids) > 1 THEN <<AlignmentConstraint(st.id, space_ids)>>
        ELSE <<>>

\* the last space of a patch whose id starts with the stalk's id (0: none)
LastWithPrefix(patch, stalk_id) ==
    LET hits == {i \in 1..Len(patch.spaces) :
                    StartsWith(patch.spaces[i].id, stalk_id)}
    IN  IF hits = {} THEN 0 ELSE SetMax(hits)

\* floor_diag = floor_plate_width * 1.414; min_stair_dist = floor_diag / 3
DiagMilli == 1414
DiagDivisor == 3
MinStairDist(b) == RDiv(FloorPlateWidth(b) * DiagMilli, 1000 * DiagDivisor)

\* build_sheaf_constraints: the separation constraint of one pair of stairs,
\* taken on the first patch that holds an instance of both
StairPairConstraint(ps, s1, s2, b) ==
    LET fl == FloorIndices(ps)
        both == SelectSeq(fl, LAMBDA f : LastWithPrefix(ps[f], s1.id) # 0
                                         /\ LastWithPrefix(ps[f], s2.id) # 0)
    IN  IF both = <<>> THEN <<>>
        ELSE LET patch == ps[both[1]]
             IN  <<MinimumDistanceConstraint(
                     patch.spaces[LastWithPrefix(patch, s1.id)].id,
                     patch.spaces[LastWithPrefix(patch, s2.id)].id,
                     MinStairDist(b))>>

\* build_sheaf_constraints: the stair separation constraints
StairConstraints(ps, sts, b) ==
    LET stair_stalks == SelectSeq(sts, LAMBDA s : s.element_type = "stair")
        n == Len(stair_stalks)
    IN  IF n >= 2
        THEN Flatten([i \in 1..n |->
                Flatten([k \in 1..(n - i) |->
                    StairPairConstraint(ps, stair_stalks[i], stair_stalks[i + k], b)])])
        ELSE <<>>

\* build_sheaf_constraints
BuildSheafConstraints(ps, sts, b) ==
    LET fl == FloorIndices(ps)
    IN  Flatten([i \in 1..Len(fl) |-> BuildFloorConstraints(ps[fl[i]])])
        \o Flatten([i \in 1..Len(sts) |-> AlignmentConstraints(ps, sts[i])])
        \o StairConstraints(ps, sts, b)

(***************************************************************************)
(* Fuzzy scaling (fuzzy.py)                                                *)
(* Fractions of FuzzyConfig are in hundredths, scale factors in 1/SC.      *)
(***************************************************************************)
SC == 10000

\* sqrt(n/d) as a scale factor, rounded to the nearest 1/SC
SqrtScale(n, d) ==
    LET r == Isqrt(RDiv(n * SC, d) * SC)
    IN  IF (r + 1) * (r + 1) - RDiv(n * SC, d) * SC < RDiv(n * SC, d) * SC - r * r
        THEN r + 1 ELSE r

\* FuzzyConfig defaults
DefaultFuzzy ==
    [area_tolerance |-> 25, min_membership |-> 30,
     aspect_ratio_min |-> 30, aspect_ratio_max |-> 300,
     scale_mode |-> "proportional", max_growth |-> 20, max_shrink |-> 40]

\* a fuzzy_area_membership that leaves out abs()
FuzzyAreaMembershipSigned(actual, target, tolerance) ==
    IF target <= 0 THEN [num |-> 0, den |-> 1]
    ELSE IF actual = target THEN [num |-> 1, den |-> 1]
    ELSE IF 100 * (actual - target) <= tolerance * target
         THEN [num |-> tolerance * target - 100 * (actual - target),
               den |-> tolerance * target]
         ELSE [num |-> 0, den |-> 1]

\* fuzzy_area_membership(actual, target, tolerance) as the fraction num / den;
\* tolerance in hundredths
FuzzyAreaMembershipQ(actual, target, tolerance) ==
    IF target <= 0 THEN [num |-> 0, den |-> 1]
    ELSE IF actual = target THEN [num |-> 1, den |-> 1]
    ELSE IF 100 * Abs(actual - target) <= tolerance * target
         THEN [num |-> tolerance * target - 100 * Abs(actual - target),
               den |-> tolerance * target]
         ELSE [num |-> 0, den |-> 1]

\* fuzzy_area_membership(actual, target, tolerance), in hundredths
FuzzyAreaMembership(actual, target, tolerance) ==
    Bind(FuzzyAreaMembershipQ(actual, target, tolerance),
         LAMBDA q : 100 - RDiv(100 * (q.den - q.num), q.den))

\* compute_optimal_scale(target_area, available_area, config):
\* (scale_factor, membership)
ComputeOptimalScale(target_area, available_area, cfg) ==
    IF target_area <= 0 THEN [scale |-> SC, membership |-> 0]
    ELSE IF available_area >= target_area
    THEN IF 100 * available_area <= target_area * (100 + cfg.max_growth)
         THEN [scale |-> SqrtScale(available_area, target_area),
               membership |-> FuzzyAreaMembership(available_area, target_area,
                                                  cfg.area_tolerance)]
         ELSE [scale |-> SC, membership |-> 100]
    ELSE IF 100 * available_area < target_area * (100 - cfg.max_shrink)
         THEN [scale |-> SqrtScale(100 - cfg.max_shrink, 100), membership |-> 0]
         ELSE [scale |-> SqrtScale(available_area, target_area),
               membership |-> FuzzyAreaMembership(available_area, target_area,
                                                  cfg.area_tolerance)]

\* a dimension times a scale factor
Scaled(dim, scale) == 2 * RDiv(dim * scale, 2 * SC)

FuzzySpace(tw, th, aw, ah, cfg) ==
    [target_width |-> tw, target_height |-> th, target_area |-> tw * th,
     actual_width |-> aw, actual_height |-> ah, actual_area |-> aw * ah,
     membership |-> FuzzyAreaMembership((aw * ah) \div 4, (tw * th) \div 4,
                                        cfg.area_tolerance),
     scale_factor |-> IF tw > 0 THEN RDiv(aw * SC, tw) ELSE SC]

\* fuzzy_scale_to_fit: the branch "fits without scaling"
FitsWithoutScaling(tw, th, mw, mh, cfg) ==
    LET scale_w == RDiv(mw * SC, tw)
        scale_h == RDiv(mh * SC, th)
        max_scale == Min2(Min2(scale_w, scale_h), SC + (cfg.max_growth * SC) \div 100)
    IN  IF cfg.scale_mode = "proportional" /\ max_scale > SC
        THEN FuzzySpace(tw, th, Scaled(tw, max_scale), Scaled(th, max_scale), cfg)
        ELSE FuzzySpace(tw, th, tw, th, cfg)

\* fuzzy_scale_to_fit: the scaled-down dimensions before the aspect check
ScaledDown(tw, th, mw, mh, cfg) ==
    LET scale_w == IF tw > 0 THEN RDiv(mw * SC, tw) ELSE SC
        scale_h == IF th > 0 THEN RDiv(mh * SC, th) ELSE SC
        min_scale == SqrtScale(100 - cfg.max_shrink, 100)
        area_needed == ((tw * th) \div 4) * (200 - cfg.area_tolerance)
    IN  CASE cfg.scale_mode = "proportional" ->
                LET scale == Max2(Min2(scale_w, scale_h), min_scale)
                IN  <<Scaled(tw, scale), Scaled(th, scale)>>
          [] cfg.scale_mode = "height_priority" ->
                IF th > mh
                THEN <<Min2(Dim(area_needed, 50 * mh), mw), mh>>
                ELSE <<Min2(tw, mw), th>>
          [] cfg.scale_mode = "width_priority" ->
                IF tw > mw
                THEN <<mw, Min2(Dim(area_needed, 50 * mw), mh)>>
                ELSE <<tw, Min2(th, mh)>>
          [] OTHER ->
                LET scale == Min2(RDiv(mw * SC, tw), RDiv(mh * SC, th))
                IN  <<Scaled(tw, scale), Scaled(th, scale)>>

\* fuzzy_scale_to_fit: the aspect ratio clamp
AspectClamp(aw, ah, mw, mh, cfg) ==
    IF ah > 0 /\ 100 * aw < cfg.aspect_ratio_min * ah
    THEN <<Min2(Dim(ah * cfg.aspect_ratio_min, 100), mw), ah>>
    ELSE IF ah > 0 /\ 100 * aw > cfg.aspect_ratio_max * ah
    THEN <<aw, Min2(Dim(aw * 100, cfg.aspect_ratio_max), mh)>>
    ELSE <<aw, ah>>

\* fuzzy_scale_to_fit(target_width, target_height, max_width, max_height, config)
FuzzyScaleToFit(tw, th, mw, mh, cfg) ==
    IF tw <= mw /\ th <= mh THEN FitsWithoutScaling(tw, th, mw, mh, cfg)
    ELSE LET d == ScaledDown(tw, th, mw, mh, cfg)
             a == AspectClamp(d[1], d[2], mw, mh, cfg)
         IN  FuzzySpace(tw, th, a[1], a[2], cfg)

(***************************************************************************)
(* Solver (solver.py).  A placement function that mutates the spaces of a  *)
(* patch is an operator from the patch to the patch; the lists of spaces   *)
(* it is given are sequences of indices into patch.spaces.                 *)
(***************************************************************************)
\* random_seed = None
NoSeed == -1

\* SolverConfig defaults (tolerance in thousandths, lengths in units)
DefaultConfig ==
    [tolerance |-> 10, grid_snap |-> U, allow_rotation |-> TRUE,
     core_margin |-> U, margin |-> U, random_seed |-> NoSeed,
     fuzzy |-> DefaultFuzzy]

\* word in stalk.element_type
TypeHas(st, word) == st.element_type = word

\* sum of the widths of a group of stalks plus the margins between them
GroupWidth(sts, group, cfg) ==
    IF group # <<>>
    THEN SeqSum([k \in 1..Len(group) |-> sts[group[k]].spec.width_ft])
         + cfg.core_margin * (Len(group) - 1)
    ELSE 0

\* where stalk k of a row starting at start_x is centred
RowX(sts, row, k, start_x, cfg) ==
    start_x
    + SeqSum([j \in 1..(k - 1) |-> sts[row[j]].spec.width_ft + cfg.core_margin])
    + sts[row[k]].spec.width_ft \div 2

PositionIn(seq, v) == CHOOSE k \in 1..Len(seq) : seq[k] = v
InSeq(seq, v) == \E k \in 1..Len(seq) : seq[k] = v

\* the value a mutating step leaves, or the fact that it raised
Ok(v) == [raised |-> FALSE, value |-> v]
Raise(v) == [raised |-> TRUE, value |-> v]

\* place_vertical_core: the stalks after the call; raises IndexError on
\* floor_indices[0] when there are stalks and no floor
PlaceVerticalCore(ps, sts, cfg) ==
    IF sts = <<>> THEN Ok(sts)
    ELSE IF FloorIndices(ps) = <<>> THEN Raise(sts)
    ELSE
    LET floor_bounds == BoundingBox(ps[FloorIndices(ps)[1]].domain)
        all == [i \in 1..Len(sts) |-> i]
        elevators == SelectSeq(all, LAMBDA i : TypeHas(sts[i], "elevator"))
        stairs == SelectSeq(all, LAMBDA i : TypeHas(sts[i], "stair"))
        shafts == SelectSeq(all, LAMBDA i : TypeHas(sts[i], "shaft"))
        core_width == GroupWidth(sts, elevators, cfg) + GroupWidth(sts, stairs, cfg)
                      + cfg.core_margin * 2
        core_start_x == floor_bounds.x - core_width \div 2
        row == (IF Len(stairs) >= 1 THEN <<stairs[1]>> ELSE <<>>)
               \o elevators
               \o (IF Len(stairs) >= 2 THEN <<stairs[2]>> ELSE <<>>)
        max_core_height ==
            Max2(IF elevators # <<>> THEN sts[elevators[1]].spec.height_ft ELSE 0,
                 IF stairs # <<>> THEN sts[stairs[1]].spec.height_ft ELSE 0)
        shaft_y == floor_bounds.y - max_core_height \div 2 - 3 * U
        shaft_x == floor_bounds.x - GroupWidth(sts, shafts, cfg) \div 2
    IN  Ok([i \in 1..Len(sts) |->
            IF InSeq(shafts, i)
            THEN StalkPlace(sts[i],
                    RowX(sts, shafts, PositionIn(shafts, i), shaft_x, cfg),
                    shaft_y - sts[i].spec.height_ft \div 2)
            ELSE IF InSeq(row, i)
            THEN StalkPlace(sts[i],
                    RowX(sts, row, PositionIn(row, i), core_start_x, cfg),
                    floor_bounds.y)
            ELSE IF InSeq(stairs, i)
            THEN StalkPlace(sts[i], floor_bounds.x,
                            floor_bounds.y - EffectiveHeight(floor_bounds) \div 4)
            ELSE sts[i]])

\* Optional[Rectangle] = None
NoZone == [present |-> FALSE]
Zone(r) == [present |-> TRUE, rect |-> r]

\* the bounding box of a set of rectangles, grown by the margin
ExclusionBox(lefts, rights, bottoms, tops, margin) ==
    Rectangle((SetMin(lefts) + SetMax(rights)) \div 2,
              (SetMin(bottoms) + SetMax(tops)) \div 2,
              (SetMax(rights) - SetMin(lefts)) + 2 * margin,
              (SetMax(tops) - SetMin(bottoms)) + 2 * margin, 0)

\* compute_core_exclusion_zone(patch, sheaf, margin)
ComputeCoreExclusionZone(patch, sts, margin) ==
    LET placed_stalks == {i \in 1..Len(sts) : sts[i].position.placed}
        placed_vertical == {i \in 1..Len(patch.spaces) :
                               patch.spaces[i].spec.is_vertical
                               /\ IsPlaced(patch.spaces[i])}
    IN  IF placed_stalks # {}
        THEN Zone(ExclusionBox(
                {sts[i].position.x - sts[i].spec.width_ft \div 2 : i \in placed_stalks},
                {sts[i].position.x + sts[i].spec.width_ft \div 2 : i \in placed_stalks},
                {sts[i].position.y - sts[i].spec.height_ft \div 2 : i \in placed_stalks},
                {sts[i].position.y + sts[i].spec.height_ft \div 2 : i \in placed_stalks},
                margin))
        ELSE IF placed_vertical = {} THEN NoZone
        ELSE Zone(ExclusionBox(
                {patch.spaces[i].position.x - SpaceWidth(patch.spaces[i]) \div 2 :
                    i \in placed_vertical},
                {patch.spaces[i].position.x + SpaceWidth(patch.spaces[i]) \div 2 :
                    i \in placed_vertical},
                {patch.spaces[i].position.y - SpaceHeight(patch.spaces[i]) \div 2 :
                    i \in placed_vertical},
                {patch.spaces[i].position.y + SpaceHeight(patch.spaces[i]) \div 2 :
                    i \in placed_vertical},
                margin))

\* is_position_valid(patch, space, pos): space is patch.spaces[i] with the
\* given rotation
IsPositionValid(patch, i, rotation, x, y) ==
    LET space == patch.spaces[i]
        test_rect == Rectangle(x, y, space.spec.width_ft, space.spec.height_ft,
                               rotation)
    IN  /\ PolyContainsRectangle(patch.domain, test_rect)
        /\ \A k \in 1..Len(patch.spaces) :
              \/ ~IsPlaced(patch.spaces[k])
              \/ patch.spaces[k].id = space.id
              \/ ~Intersects(test_rect, Geometry(patch.spaces[k]))

\* int(config.grid_snap): the step of the grid searches, in feet
GridStep(cfg) == Trunc(cfg.grid_snap, U)

RECURSIVE ScanRow(_, _, _, _, _, _, _)
\* for x in range(x, x_end, step): the first valid x of a row, in feet
\* (x_end when there is none)
ScanRow(patch, i, rotation, y, x, x_end, step) ==
    IF x >= x_end THEN x_end
    ELSE IF IsPositionValid(patch, i, rotation, x * U, y * U) THEN x
    ELSE ScanRow(patch, i, rotation, y, x + step, x_end, step)

RECURSIVE ScanGrid(_, _, _, _, _, _, _, _)
\* for y in range(...): for x in range(...): the first valid position
ScanGrid(patch, i, rotation, y, y_end, x_start, x_end, step) ==
    IF y >= y_end THEN NoPos
    ELSE LET x == ScanRow(patch, i, rotation, y, x_start, x_end, step)
         IN  IF x < x_end /\ x_start < x_end THEN Pos(x * U, y * U)
             ELSE ScanGrid(patch, i, rotation, y + step, y_end, x_start, x_end, step)

\* one grid search of find_valid_position with half-dimensions hw, hh
GridSearch(patch, i, rotation, hw, hh, cfg) ==
    LET floor_bounds == BoundingBox(patch.domain)
    IN  ScanGrid(patch, i, rotation,
                 Trunc(Bottom(floor_bounds) + 2 * U + hh, U),
                 Trunc(Top(floor_bounds) - 2 * U - hh, U),
                 Trunc(Left(floor_bounds) + 2 * U + hw, U),
                 Trunc(Right(floor_bounds) - 2 * U - hw, U),
                 GridStep(cfg))

\* find_valid_position: the position returned and the rotation the space is
\* left with (the rotated search sets space.rotation = 90 and resets it only
\* when it finds nothing)
FindValidPosition(patch, i, cfg) ==
    LET space == patch.spaces[i]
        hw == space.spec.width_ft \div 2
        hh == space.spec.height_ft \div 2
        rotated ==
            Bind(GridSearch(patch, i, 90, hh, hw, cfg),
                 LAMBDA second :
                    IF second.placed THEN [pos |-> second, rotation |-> 90]
                    ELSE [pos |-> NoPos, rotation |-> 0])
    IN  Bind(GridSearch(patch, i, space.rotation, hw, hh, cfg),
             LAMBDA first :
                IF first.placed THEN [pos |-> first, rotation |-> space.rotation]
                ELSE IF cfg.allow_rotation
                        /\ space.spec.width_ft # space.spec.height_ft
                THEN rotated
                ELSE [pos |-> NoPos, rotation |-> space.rotation])

\* pos = find_valid_position(patch, space, config); if pos: space.place(pos.x, pos.y)
FindAndPlace(patch, i, cfg) ==
    Bind(FindValidPosition(patch, i, cfg),
         LAMBDA r :
            LET turned == [patch.spaces[i] EXCEPT !.rotation = r.rotation]
            IN  [patch EXCEPT !.spaces[i] =
                    IF r.pos.placed THEN Place(turned, r.pos.x, r.pos.y, 0)
                    ELSE turned])

RECURSIVE ScanEdge(_, _, _, _, _, _, _)
\* try_place_on_edge: for t in range(t, t_end, step) along an edge; fixed is
\* the coordinate the edge fixes (y for bottom and top, x for left and right)
ScanEdge(patch, i, horizontal, fixed, t, t_end, step) ==
    LET space == patch.spaces[i]
        x == IF horizontal THEN t * U + space.spec.width_ft \div 2 ELSE fixed
        y == IF horizontal THEN fixed ELSE t * U + space.spec.height_ft \div 2
    IN  IF t >= t_end THEN NoPos
        ELSE IF IsPositionValid(patch, i, space.rotation, x, y) THEN Pos(x, y)
        ELSE ScanEdge(patch, i, horizontal, fixed, t + step, t_end, step)

\* try_place_on_edge(patch, space, edge, config)
TryPlaceOnEdge(patch, i, edge, cfg) ==
    LET floor_bounds == BoundingBox(patch.domain)
        space == patch.spaces[i]
        margin == 2 * U
        x_from == Trunc(Left(floor_bounds) + margin, U)
        x_to == Trunc(Right(floor_bounds) - margin - space.spec.width_ft, U)
        y_from == Trunc(Bottom(floor_bounds) + margin, U)
        y_to == Trunc(Top(floor_bounds) - margin - space.spec.height_ft, U)
    IN  CASE edge = "bottom" ->
                ScanEdge(patch, i, TRUE,
                         Bottom(floor_bounds) + margin + space.spec.height_ft \div 2,
                         x_from, x_to, GridStep(cfg))
          [] edge = "top" ->
                ScanEdge(patch, i, TRUE,
                         Top(floor_bounds) - margin - space.spec.height_ft \div 2,
                         x_from, x_to, GridStep(cfg))
          [] edge = "left" ->
                ScanEdge(patch, i, FALSE,
                         Left(floor_bounds) + margin + space.spec.width_ft \div 2,
                         y_from, y_to, GridStep(cfg))
          [] edge = "right" ->
                ScanEdge(patch, i, FALSE,
                         Right(floor_bounds) - margin - space.spec.width_ft \div 2,
                         y_from, y_to, GridStep(cfg))

Edges == <<"bottom", "right", "top", "left">>

\* place_along_perimeter, body of the loop for one unplaced space
PerimeterPlaceOne(patch, i, cfg) ==
    Bind({e \in 1..4 : TryPlaceOnEdge(patch, i, Edges[e], cfg).placed},
         LAMBDA hits :
            IF hits # {}
            THEN Bind(TryPlaceOnEdge(patch, i, Edges[SetMin(hits)], cfg),
                      LAMBDA pos :
                         [patch EXCEPT !.spaces[i] = Place(@, pos.x, pos.y, 0)])
            ELSE FindAndPlace(patch, i, cfg))

RECURSIVE PlaceAlongPerimeter(_, _, _)
\* place_along_perimeter(patch, spaces, config); range() raises ValueError
\* when int(config.grid_snap) is 0
PlaceAlongPerimeter(patch, spaces, cfg) ==
    IF spaces = <<>> THEN Ok(patch)
    ELSE IF IsPlaced(patch.spaces[Head(spaces)])
    THEN PlaceAlongPerimeter(patch, Tail(spaces), cfg)
    ELSE IF GridStep(cfg) = 0 THEN Raise(patch)
    ELSE PlaceAlongPerimeter(PerimeterPlaceOne(patch, Head(spaces), cfg),
                             Tail(spaces), cfg)

\* sorted(seq, key=...): stable sort of a sequence of indices, ascending in
\* key[index]
SortedBy(seq, key) ==
    LET n == Len(seq)
        before(q, p) == \/ key[seq[q]] < key[seq[p]]
                        \/ key[seq[q]] = key[seq[p]] /\ q < p
        rank(p) == Cardinality({q \in 1..n : before(q, p)}) + 1
    IN  [r \in 1..n |-> seq[CHOOSE p \in 1..n : rank(p) = r]]

\* sorted(spaces, key=lambda s: -s.spec.area_sf)
LargestFirst(patch, spaces) ==
    SortedBy(spaces, [i \in 1..Len(patch.spaces) |-> -patch.spaces[i].spec.area_sf])

\* place_generic, body of the loop for one unplaced space
GenericPlaceOne(patch, i, cfg) ==
    LET space == patch.spaces[i]
        floor_bounds == BoundingBox(patch.domain)
        max_dim == Min2(EffectiveWidth(floor_bounds),
                        EffectiveHeight(floor_bounds)) \div 2
        scaled ==
            Bind(FuzzyScaleToFit(space.spec.width_ft, space.spec.height_ft,
                                 max_dim, max_dim, cfg.fuzzy),
                 LAMBDA fuzzy :
                    IF fuzzy.membership >= cfg.fuzzy.min_membership
                    THEN [patch EXCEPT !.spaces[i] =
                            SetFuzzyDimensions(@, fuzzy.actual_width,
                                               fuzzy.actual_height,
                                               fuzzy.membership)]
                    ELSE patch)
    IN  FindAndPlace(scaled, i, cfg)

RECURSIVE PlaceGenericFrom(_, _, _)
PlaceGenericFrom(patch, spaces, cfg) ==
    IF spaces = <<>> THEN Ok(patch)
    ELSE IF IsPlaced(patch.spaces[Head(spaces)])
    THEN PlaceGenericFrom(patch, Tail(spaces), cfg)
    ELSE IF GridStep(cfg) = 0 THEN Raise(patch)
    ELSE PlaceGenericFrom(GenericPlaceOne(patch, Head(spaces), cfg),
                          Tail(spaces), cfg)

\* place_generic(patch, spaces, config)
PlaceGeneric(patch, spaces, cfg) ==
    PlaceGenericFrom(patch, LargestFirst(patch, spaces), cfg)

\* place_ground_floor(patch, support, units, config)
PlaceGroundFloor(patch, support, units, cfg) ==
    LET floor_bounds == BoundingBox(patch.domain)
        entry_y == Bottom(floor_bounds) + 10 * U
        lobbies == SelectSeq(support,
                             LAMBDA i : NameHasLobby(patch.spaces[i].spec.name))
        with_lobby ==
            IF lobbies # <<>>
            THEN [patch EXCEPT !.spaces[lobbies[1]] =
                    Place(@, floor_bounds.x, entry_y + @.spec.height_ft \div 2, 0)]
            ELSE patch
        remaining ==
            SelectSeq(support,
                LAMBDA i : /\ lobbies = <<>>
                              \/ with_lobby.spaces[i] # with_lobby.spaces[lobbies[1]]
                           /\ ~IsPlaced(with_lobby.spaces[i]))
    IN  Bind(PlaceAlongPerimeter(with_lobby, remaining, cfg),
             LAMBDA perimeter :
                IF perimeter.raised \/ units = <<>> THEN perimeter
                ELSE PlaceGeneric(perimeter.value, units, cfg))

\* place_parking_floor(patch, mep_and_support, config)
PlaceParkingFloor(patch, mep_and_support, cfg) ==
    PlaceAlongPerimeter(patch, mep_and_support, cfg)

\* has_overlap(x, y, w, h) of place_residential_floor: more than 1 sq ft of
\* bounding-box overlap with a placed space, or intersecting the core zone
HasOverlap(patch, core_zone, x, y, w, h) ==
    LET test_rect == Rectangle(x, y, w, h, 0)
    IN  \/ \E k \in 1..Len(patch.spaces) :
              /\ IsPlaced(patch.spaces[k])
              /\ IntersectionArea(test_rect, Geometry(patch.spaces[k])) > 1 * U * U
        \/ core_zone.present /\ Intersects(test_rect, core_zone.rect)

ScanStep == 5

\* the positions (x, y) place_residential_floor generates for a space
ScanPositions(patch, space, cfg) ==
    LET floor_bounds == BoundingBox(patch.domain)
        ys == PyRange(Trunc(Bottom(floor_bounds) + cfg.margin, U),
                      Trunc(Top(floor_bounds) - cfg.margin - SpaceHeight(space), U),
                      ScanStep)
        xs == PyRange(Trunc(Left(floor_bounds) + cfg.margin, U),
                      Trunc(Right(floor_bounds) - cfg.margin - SpaceWidth(space), U),
                      ScanStep)
    IN  {<<xs[a] * U + SpaceWidth(space) \div 2, ys[b] * U + SpaceHeight(space) \div 2>> :
            a \in 1..Len(xs), b \in 1..Len(ys)}

\* the first of the free positions in the order of the sorted list of
\* (dist, x, y) tuples: descending (reverse=True) or ascending
FirstFree(free, centre, descending) ==
    LET d2(c) == (c[1] - centre.x) * (c[1] - centre.x)
                 + (c[2] - centre.y) * (c[2] - centre.y)
        pick(S) == IF descending THEN SetMax(S) ELSE SetMin(S)
        best_d2 == pick({d2(c) : c \in free})
        by_dist == {c \in free : d2(c) = best_d2}
        best_x == pick({c[1] : c \in by_dist})
        best_y == pick({c[2] : c \in {e \in by_dist : e[1] = best_x}})
    IN  <<best_x, best_y>>

\* place_residential_floor, body of either loop for one space
ResidentialPlaceOne(patch, i, core_zone, cfg, descending) ==
    LET space == SetFuzzyDimensions(patch.spaces[i], patch.spaces[i].spec.width_ft,
                                    patch.spaces[i].spec.height_ft, 100)
        sized == [patch EXCEPT !.spaces[i] = space]
        free == {c \in ScanPositions(sized, space, cfg) :
                    ~HasOverlap(sized, core_zone, c[1], c[2],
                                SpaceWidth(space), SpaceHeight(space))}
        best == FirstFree(free, BoundingBox(patch.domain), descending)
    IN  IF free = {} THEN sized
        ELSE [sized EXCEPT !.spaces[i] = Place(space, best[1], best[2], 0)]

RECURSIVE ResidentialPlaceAll(_, _, _, _, _)
ResidentialPlaceAll(patch, spaces, core_zone, cfg, descending) ==
    IF spaces = <<>> THEN patch
    ELSE ResidentialPlaceAll(
            ResidentialPlaceOne(patch, Head(spaces), core_zone, cfg, descending),
            Tail(spaces), core_zone, cfg, descending)

\* place_residential_floor(patch, units, support, config, sheaf)
PlaceResidentialFloor(patch, units, support, cfg, sts) ==
    LET core_zone == ComputeCoreExclusionZone(patch, sts, 2 * U)
        all_spaces == units \o support
        dwelling == SelectSeq(all_spaces,
                        LAMBDA i : patch.spaces[i].spec.category = "DWELLING_UNIT")
        boh == SelectSeq(all_spaces,
                        LAMBDA i : patch.spaces[i].spec.category # "DWELLING_UNIT")
        phase1 == ResidentialPlaceAll(patch, LargestFirst(patch, dwelling),
                                      core_zone, cfg, TRUE)
    IN  Ok(ResidentialPlaceAll(phase1, LargestFirst(patch, boh), core_zone, cfg, FALSE))

MepCategories ==
    {"ELECTRICAL", "MECHANICAL", "PLUMBING", "FIRE_SPRINKLER", "LOW_VOLTAGE",
     "DRY_UTILITIES"}

\* place_floor_spaces(patch, sheaf, config)
PlaceFloorSpaces(patch, sts, cfg) ==
    LET n == Len(patch.spaces)
        unplaced == SelectSeq([i \in 1..n |-> i], LAMBDA i : ~IsPlaced(patch.spaces[i]))
        spaces == SortedBy(unplaced,
                           [i \in 1..n |-> -patch.spaces[i].placement_priority])
        cat(i) == patch.spaces[i].spec.category
        non_vertical == SelectSeq(spaces, LAMBDA i : ~patch.spaces[i].spec.is_vertical)
        units == SelectSeq(non_vertical, LAMBDA i : cat(i) = "DWELLING_UNIT")
        support == SelectSeq(non_vertical,
                        LAMBDA i : cat(i) \in {"SUPPORT", "STAFF", "CIRCULATION"})
        amenities == SelectSeq(non_vertical,
                        LAMBDA i : cat(i) \in {"AMENITY_INDOOR", "AMENITY_OUTDOOR"})
        mep == SelectSeq(non_vertical, LAMBDA i : cat(i) \in MepCategories)
    IN  IF patch.floor_type = "RESIDENTIAL_TYPICAL"
        THEN PlaceResidentialFloor(patch, units, support, cfg, sts)
        ELSE IF patch.floor_type = "GROUND"
        THEN PlaceGroundFloor(patch, support \o amenities,
                              SubSeq(units, 1, Min2(5, Len(units))), cfg)
        ELSE IF patch.floor_type \in {"BASEMENT", "PARKING_UNDERGROUND"}
        THEN PlaceParkingFloor(patch, mep \o support, cfg)
        ELSE PlaceGeneric(patch, non_vertical, cfg)

\* solve_massing, step 5: the SolverResult.  The obstruction and the
\* tolerance are compared on the scale of 5 * U * U to the unit (a square
\* foot of violation is U * U, a hundredth of membership penalty is 2).
ObstructionScale == 5 * U * U

\* a success test that forgets the placement rate (mutation of Success)
SuccessWithoutRate(total_obstruction, placed_spaces, total_spaces, cfg) ==
    total_obstruction < cfg.tolerance * (ObstructionScale \div 1000)

\* success = total_obstruction < config.tolerance and placement_rate >= 0.9,
\* with placement_rate = placed_spaces / total_spaces if total_spaces > 0 else 0
Success(total_obstruction, placed_spaces, total_spaces, cfg) ==
    /\ total_obstruction < cfg.tolerance * (ObstructionScale \div 1000)
    /\ IF total_spaces > 0 THEN 10 * placed_spaces >= 9 * total_spaces ELSE FALSE

SolverResult(ps, sts, b, cfg, hash_seed) ==
    LET constraints == BuildSheafConstraints(ps, sts, b)
        all_spaces == GetAllSpaces(ps)
        obstruction == TotalViolation(constraints, all_spaces)
        violations == GetViolations(constraints, all_spaces)
        total_spaces == Len(all_spaces)
        placed == SelectSeq(all_spaces, IsPlaced)
        placed_spaces == Len(placed)
        membership_penalty ==
            SeqSum([i \in 1..placed_spaces |-> 100 - placed[i].membership])
            * (ObstructionScale \div 1000)
        total_obstruction == 5 * obstruction + membership_penalty
        success == Success(total_obstruction, placed_spaces, total_spaces, cfg)
    IN  [success |-> success,
         obstruction |-> total_obstruction,
         iterations |-> 1,
         message |-> IF success THEN "Success" ELSE "Partial",
         violations |-> [i \in 1..Min2(10, Len(violations)) |->
                            ViolationMessage(violations[i], hash_seed)],
         placement_rate |-> IF total_spaces > 0
                            THEN RDiv(100 * placed_spaces, total_spaces) ELSE 0,
         avg_membership |-> IF placed_spaces > 0
                            THEN RDiv(SeqSum([i \in 1..placed_spaces |->
                                                placed[i].membership]),
                                      placed_spaces)
                            ELSE 0,
         total_spaces |-> total_spaces,
         placed_spaces |-> placed_spaces]

(***************************************************************************)
(* Inputs of solve_massing                                                 *)
(***************************************************************************)
MaxStories == 2
MaxStairs == 2
MaxUnitCount == 2

\* CirculationSpec(...): 64 sq ft passenger elevators, 32 sq ft stairs
CirculationSpec(elevators, stair_count, vestibule_lobby_sf) ==
    [elevator_passenger_count |-> elevators, elevator_passenger_sf |-> 64,
     elevator_freight_count |-> 0, elevator_freight_sf |-> 0,
     stair_count |-> stair_count, stair_sf |-> 32,
     vestibule_lobby_sf |-> vestibule_lobby_sf]

\* BuildingSpec(...) on a square floor plate of the given side (feet)
BuildingSpec(above, below, side_ft, circulation, dwelling_units, support_spaces, amenity_outdoor, mep_spaces) ==
    [floor_plate_sf |-> side_ft * side_ft,
     stories_above_grade |-> above, stories_below_grade |-> below,
     parking_stories10 |-> 0, underground_stalls |-> 0, podium_stalls |-> 0,
     dwelling_units |-> dwelling_units, circulation |-> circulation,
     support_spaces |-> support_spaces, staff_spaces |-> <<>>,
     amenity_indoor |-> <<>>, amenity_outdoor |-> amenity_outdoor,
     mep_spaces |-> mep_spaces]

StudioUnits(count) ==
    IF count = 0 THEN <<>>
    ELSE <<DwellingUnit(<<"studio">>, "Studio", 200, 20 * U, 10 * U, count, "studio")>>

MailRoom ==
    SpaceSpec(<<"mail">>, "SUPPORT", "Mail Room", 100, 10 * U, 10 * U, 1,
              "GROUND", FALSE)
RoofStorage ==
    SpaceSpec(<<"roof_storage">>, "SUPPORT", "Roof Storage", 288, 36 * U, 8 * U, 1,
              "ROOF", FALSE)
Janitor ==
    SpaceSpec(<<"janitor">>, "SUPPORT", "Janitor Closet", 48, 8 * U, 6 * U, 1,
              "ALL", FALSE)
RoofDeck ==
    SpaceSpec(<<"roof_deck">>, "AMENITY_OUTDOOR", "Roof Deck", 400, 20 * U, 20 * U, 1,
              "ROOF", FALSE)
ElectricalRoom ==
    SpaceSpec(<<"electrical">>, "ELECTRICAL", "Electrical Room", 36, 6 * U, 6 * U, 1,
              "BASEMENT", FALSE)

\* the space programmes of the inputs: dwelling units, support spaces,
\* outdoor amenities, MEP rooms
Programme(dwelling_units, support_spaces, amenity_outdoor, mep_spaces) ==
    [dwelling_units |-> dwelling_units, support_spaces |-> support_spaces,
     amenity_outdoor |-> amenity_outdoor, mep_spaces |-> mep_spaces]

Programmes ==
    {Programme(StudioUnits(units), <<>>, <<>>, <<>>) : units \in 0..MaxUnitCount}
    \cup {Programme(StudioUnits(units), <<MailRoom>>, <<>>, <<ElectricalRoom>>) :
            units \in 1..MaxUnitCount}
    \cup {Programme(<<>>, <<RoofStorage, Janitor>>, <<RoofDeck>>, <<>>),
          Programme(StudioUnits(1), <<RoofStorage>>, <<>>, <<>>)}

FloorSides == {24, 40}
ElevatorCounts == {0, 1}
LobbySizes == {0, 256}

\* one floor, a 100 x 100 floor plate, one 20 x 10 dwelling unit, no circulation
SingleUnitBuilding ==
    BuildingSpec(1, 0, 100, CirculationSpec(0, 0, 0), StudioUnits(1), <<>>, <<>>, <<>>)

Buildings ==
    {BuildingSpec(above, below, side, CirculationSpec(e, st, lobby),
                  p.dwelling_units, p.support_spaces, p.amenity_outdoor,
                  p.mep_spaces) :
        above \in 0..MaxStories, below \in 0..1, side \in FloorSides,
        e \in ElevatorCounts, st \in 0..MaxStairs, lobby \in LobbySizes,
        p \in Programmes}
    \cup {SingleUnitBuilding}

Configs ==
    {DefaultConfig,
     [DefaultConfig EXCEPT !.grid_snap = U \div 2],
     [DefaultConfig EXCEPT !.allow_rotation = FALSE],
     [DefaultConfig EXCEPT !.tolerance = 20000],
     [DefaultConfig EXCEPT !.random_seed = 42]}

\* the calls of solve_massing explored: every building with the default
\* config, the other configs on the small floor plate without basement, the
\* seeded config on its one-story buildings
Inputs ==
    {input \in Buildings \X Configs :
        \/ input[2] = DefaultConfig
        \/ /\ input[1].floor_plate_sf = 24 * 24
           /\ input[1].stories_below_grade = 0
           /\ input[2].random_seed = NoSeed \/ input[1].stories_above_grade = 1}

NoResult == [returned |-> FALSE]

(***************************************************************************)
(* solve_massing as a state machine                                        *)
(***************************************************************************)
Init ==
    /\ pc = "start"
    /\ \E input \in Inputs : building = input[1] /\ config = input[2]
    /\ patches = <<>>
    /\ stalks = <<>>
    /\ floor_pos = 0
    /\ processed = {}
    /\ result = NoResult

\* Step 1: sheaf = construct_sheaf(building, lot_geometry)
ConstructSheaf ==
    /\ pc = "start"
    /\ patches' = ConstructPatches(building)
    /\ stalks' = NewStalks(building)
    /\ pc' = "core"
    /\ UNCHANGED <<building, config, floor_pos, processed, result>>

\* a solve_massing that propagates the stalk positions right after step 2
PlaceCoreAndPropagate ==
    /\ pc = "core"
    /\ \E r \in {PlaceVerticalCore(patches, stalks, config)} :
          /\ stalks' = r.value
          /\ patches' = IF r.raised THEN patches
                        ELSE PropagateStalkPositions(patches, r.value)
          /\ pc' = IF r.raised THEN "raised" ELSE "floors"
    /\ floor_pos' = 1
    /\ UNCHANGED <<building, config, processed, result>>

\* Step 2: place_vertical_core(sheaf, config)
PlaceCore ==
    /\ pc = "core"
    /\ LET r == PlaceVerticalCore(patches, stalks, config)
       IN  /\ stalks' = r.value
           /\ pc' = IF r.raised THEN "raised" ELSE "floors"
    /\ floor_pos' = 1
    /\ UNCHANGED <<building, config, patches, processed, result>>

\* a place_floor_spaces step that drops the spaces it could not place
PlaceFloorDroppingUnplaced ==
    /\ pc = "floors"
    /\ floor_pos <= Len(FloorIndices(patches))
    /\ LET f == FloorIndices(patches)[floor_pos]
       IN  \E r \in {PlaceFloorSpaces(patches[f], stalks, config)} :
              /\ patches' = [patches EXCEPT ![f] =
                                IF r.raised THEN r.value
                                ELSE [r.value EXCEPT !.spaces =
                                        SelectSeq(r.value.spaces,
                                                  LAMBDA s : s.spec.is_vertical \/ IsPlaced(s))]]
              /\ pc' = IF r.raised THEN "raised" ELSE "floors"
    /\ floor_pos' = floor_pos + 1
    /\ processed' = processed \cup {FloorIndices(patches)[floor_pos]}
    /\ UNCHANGED <<building, config, stalks, result>>

\* Step 3, one iteration: place_floor_spaces(patch, sheaf, config)
PlaceFloor ==
    /\ pc = "floors"
    /\ floor_pos <= Len(FloorIndices(patches))
    /\ LET f == FloorIndices(patches)[floor_pos]
       IN  \E r \in {PlaceFloorSpaces(patches[f], stalks, config)} :
              /\ patches' = [patches EXCEPT ![f] = r.value]
              /\ pc' = IF r.raised THEN "raised" ELSE "floors"
    /\ floor_pos' = floor_pos + 1
    /\ processed' = processed \cup {FloorIndices(patches)[floor_pos]}
    /\ UNCHANGED <<building, config, stalks, result>>

\* Step 4: sheaf.propagate_stalk_positions()
Propagate ==
    /\ pc = "floors"
    /\ floor_pos > Len(FloorIndices(patches))
    /\ patches' = PropagateStalkPositions(patches, stalks)
    /\ pc' = "verify"
    /\ UNCHANGED <<building, config, stalks, floor_pos, processed, result>>

\* Step 5: evaluate the constraints and return the SolverResult
Verify ==
    /\ pc = "verify"
    /\ \E hash_seed \in HashSeeds :
          result' = [returned |-> TRUE,
                     value |-> SolverResult(patches, stalks, building, config,
                                            hash_seed)]
    /\ pc' = "done"
    /\ UNCHANGED <<building, config, patches, stalks, floor_pos, processed>>

Next == ConstructSheaf \/ PlaceCore \/ PlaceFloor \/ Propagate \/ Verify

Spec == Init /\ [][Next]_vars

(***************************************************************************)
(* The floors of the placement loop taken in any order                     *)
(***************************************************************************)
\* variant of the step below: the Spaces of the other floors that share a
\* SpaceSpec with a Space placed by the call receive its position
PlaceFloorOfSharedSpaces(ps, sts, cfg, floor_idx) ==
    Bind(PlaceFloorSpaces(ps[floor_idx], sts, cfg),
         LAMBDA r :
            LET same(sp) == {j \in 1..Len(r.value.spaces) :
                                /\ r.value.spaces[j].spec = sp.spec
                                /\ IsPlaced(r.value.spaces[j])}
                shared(sp) ==
                    IF ~IsPlaced(sp) /\ ~sp.spec.is_vertical /\ same(sp) # {}
                    THEN [sp EXCEPT !.position =
                             r.value.spaces[SetMin(same(sp))].position]
                    ELSE sp
            IN  [raised |-> r.raised,
                 value |-> [f \in DOMAIN ps |->
                              IF f = floor_idx THEN r.value
                              ELSE [ps[f] EXCEPT !.spaces =
                                      [i \in 1..Len(@) |-> shared(@[i])]]]])

\* place_floor_spaces(sheaf.get_patch(floor_idx), sheaf, config), as a step on
\* the patches of the sheaf
PlaceFloorOf(ps, sts, cfg, floor_idx) ==
    Bind(PlaceFloorSpaces(ps[floor_idx], sts, cfg),
         LAMBDA r : [raised |-> r.raised,
                     value |-> [ps EXCEPT ![floor_idx] = r.value]])

RECURSIVE PlaceFloorsFrom(_, _, _, _)
\* for floor_idx in sheaf.floor_indices: place_floor_spaces(patch, sheaf, config)
PlaceFloorsFrom(ps, sts, cfg, floors) ==
    IF floors = <<>> THEN Ok(ps)
    ELSE Bind(PlaceFloorOf(ps, sts, cfg, Head(floors)),
              LAMBDA r : IF r.raised THEN r
                         ELSE PlaceFloorsFrom(r.value, sts, cfg, Tail(floors)))

\* steps 1 to 4 of solve_massing in the order of the code: the sheaf they
\* leave, or raised
SolvedSheaf(b, cfg) ==
    Bind(ConstructPatches(b), LAMBDA ps :
    Bind(PlaceVerticalCore(ps, NewStalks(b), cfg), LAMBDA core :
        IF core.raised THEN [raised |-> TRUE, patches |-> ps, stalks |-> core.value]
        ELSE Bind(PlaceFloorsFrom(ps, core.value, cfg, FloorIndices(ps)), LAMBDA fl :
                [raised |-> fl.raised,
                 patches |-> IF fl.raised THEN fl.value
                             ELSE PropagateStalkPositions(fl.value, core.value),
                 stalks |-> core.value])))

\* one call of place_floor_spaces, for any floor not processed yet
PlaceAnyFloor ==
    /\ pc = "floors"
    /\ \E f \in (DOMAIN patches) \ processed :
       \E r \in {PlaceFloorOf(patches, stalks, config, f)} :
          /\ patches' = r.value
          /\ pc' = IF r.raised THEN "raised" ELSE "floors"
          /\ processed' = processed \cup {f}
    /\ floor_pos' = floor_pos + 1
    /\ UNCHANGED <<building, config, stalks, result>>

AnyOrderNext == ConstructSheaf \/ PlaceCore \/ PlaceAnyFloor \/ Propagate \/ Verify

AnyOrderSpec == Init /\ [][AnyOrderNext]_vars

(***************************************************************************)
(* Properties of solve_massing                                             *)
(***************************************************************************)
Returned_ == pc = "done"

\* the placed spaces of a floor, as indices into its list of spaces
PlacedOn(f) == {i \in 1..Len(patches[f].spaces) : IsPlaced(patches[f].spaces[i])}

\* C1: after solve_massing returns, for every stalk and every floor of its
\* range, the floor holds a Space with id {stalk_id}_f{floor}, and every such
\* Space is placed with the stalk's position and rotation.
C1_StalkInstancesFollowStalk ==
    Returned_ =>
        \A k \in 1..Len(stalks) :
            \A f \in (stalks[k].floor_range[1])..(stalks[k].floor_range[2]) :
                /\ f \in DOMAIN patches
                /\ \E i \in 1..Len(patches[f].spaces) :
                      patches[f].spaces[i].id = InstanceId(stalks[k].id, f)
                /\ \A i \in 1..Len(patches[f].spaces) :
                      patches[f].spaces[i].id = InstanceId(stalks[k].id, f) =>
                          /\ IsPlaced(patches[f].spaces[i])
                          /\ patches[f].spaces[i].position = stalks[k].position
                          /\ patches[f].spaces[i].rotation = stalks[k].rotation

\* a solve that returned with at least two stalks on at least two floors
C1_Witness ==
    /\ Returned_
    /\ Len(stalks) >= 2
    /\ Cardinality(DOMAIN patches) >= 2
    /\ \A k \in 1..Len(stalks) : stalks[k].position.placed

\* C2: after solve_massing returns, no two placed Spaces of one floor overlap:
\* the intersection area of every pair is 0.
C2_NoOverlapAfterSolve ==
    Returned_ =>
        \A f \in DOMAIN patches : \A i, j \in PlacedOn(f) :
            i < j => IntersectionArea(Geometry(patches[f].spaces[i]),
                                      Geometry(patches[f].spaces[j])) = 0

\* C3: after solve_massing returns, every placed Space lies inside the
\* bounding box of its floor on all four sides.
C3_InsideFloorAfterSolve ==
    Returned_ =>
        \A f \in DOMAIN patches : \A i \in PlacedOn(f) :
            Overflow(Geometry(patches[f].spaces[i]),
                     BoundingBox(patches[f].domain)) = 0

\* C4: solving the building with one floor, a 100 x 100 plate, one 20 x 10
\* dwelling unit and no circulation places that unit inside the floor with
\* membership 1.0 and reports total_spaces = placed_spaces = 1, rate 100%.
C4_SingleUnitPlaced ==
    (Returned_ /\ building = SingleUnitBuilding) =>
        /\ result.value.total_spaces = 1
        /\ result.value.placed_spaces = 1
        /\ result.value.placement_rate = 100
        /\ \E f \in DOMAIN patches : \E i \in PlacedOn(f) :
              /\ patches[f].spaces[i].spec.category = "DWELLING_UNIT"
              /\ patches[f].spaces[i].membership = 100
              /\ Overflow(Geometry(patches[f].spaces[i]),
                          BoundingBox(patches[f].domain)) = 0

\* C5: success is reported exactly when the sum of the constraint violations
\* plus 0.1 times the sum of (1 - membership) over the placed spaces is below
\* the tolerance and placed/total >= 0.9 (a sheaf without spaces has rate 0);
\* the message is "Success" or "Partial" accordingly and the metrics reported
\* are the obstruction, rate, average membership and counts of the sheaf.
C5_SuccessRule ==
    Returned_ =>
        LET all_spaces == GetAllSpaces(patches)
            placed == SelectSeq(all_spaces, IsPlaced)
            violation == TotalViolation(
                            BuildSheafConstraints(patches, stalks, building),
                            all_spaces)
            penalty == SeqSum([i \in 1..Len(placed) |-> 100 - placed[i].membership])
            total == 5 * violation + penalty * (ObstructionScale \div 1000)
            r == result.value
        IN  /\ r.success <=>
                /\ total < config.tolerance * (ObstructionScale \div 1000)
                /\ Len(all_spaces) > 0
                /\ 10 * Len(placed) >= 9 * Len(all_spaces)
            /\ r.message = IF r.success THEN "Success" ELSE "Partial"
            /\ r.obstruction = total
            /\ r.total_spaces = Len(all_spaces)
            /\ r.placed_spaces = Len(placed)
            /\ Len(all_spaces) = 0 => ~r.success /\ r.placement_rate = 0

\* a solve that returned success for a sheaf with placed spaces
C5_Witness ==
    /\ Returned_
    /\ result.value.success
    /\ result.value.placed_spaces > 0

\* C6: solve_massing returns without raising for every building and config.
C6_NeverRaises == pc # "raised"

\* C10: with max_shrink = 0.4, a space whose target area is double the area
\* available to it is scaled at the shrink floor (actual area = 0.6 x target)
\* with membership 0; place_generic rejects the scaled dimensions, and the
\* space is placed only where it overlaps no other space of the floor.
C10_ShrinkFloorRejected ==
    /\ ComputeOptimalScale(200, 100, DefaultFuzzy)
          = [scale |-> SqrtScale(100 - DefaultFuzzy.max_shrink, 100), membership |-> 0]
    /\ Returned_ =>
        \A f \in DOMAIN patches : \A i \in 1..Len(patches[f].spaces) :
            LET s == patches[f].spaces[i]
                floor_bounds == BoundingBox(patches[f].domain)
                max_dim == Min2(EffectiveWidth(floor_bounds),
                                EffectiveHeight(floor_bounds)) \div 2
                fuzzy == FuzzyScaleToFit(s.spec.width_ft, s.spec.height_ft,
                                         max_dim, max_dim, config.fuzzy)
            IN  (/\ patches[f].floor_type \in {"AMENITY", "PARKING_PODIUM"}
                 /\ ~s.spec.is_vertical
                 /\ config.fuzzy.max_shrink = 40
                 /\ s.spec.width_ft * s.spec.height_ft = 2 * max_dim * max_dim)
                =>  /\ fuzzy.membership = 0
                    /\ Abs(100 * (fuzzy.actual_area \div 4)
                           - 60 * (fuzzy.target_area \div 4))
                          <= fuzzy.target_area \div 4
                    /\ s.actual_width = NoDim /\ s.actual_height = NoDim
                    /\ IsPlaced(s) =>
                          \A j \in PlacedOn(f) \ {i} :
                              IntersectionArea(Geometry(s),
                                               Geometry(patches[f].spaces[j])) = 0

RandomSeeds == {NoSeed, 7, 42}

\* solve_massing(b, cfg) of a process with the given string hashes: the sheaf
\* and the SolverResult, or raised
SolveMassing(b, cfg, hash_seed) ==
    Bind(SolvedSheaf(b, cfg),
         LAMBDA s : IF s.raised THEN [raised |-> TRUE]
                    ELSE [raised |-> FALSE, patches |-> s.patches,
                          stalks |-> s.stalks,
                          value |-> SolverResult(s.patches, s.stalks, b, cfg,
                                                 hash_seed)])

\* a SolverResult with the ids of each violation as a set
Unordered(value) ==
    [value EXCEPT !.violations =
        [i \in 1..Len(@) |->
            [@[i] EXCEPT !.spaces = {@[k] : k \in 1..Len(@)}]]]

\* C19: two invocations of solve_massing with equal BuildingSpec and
\* SolverConfig give identical results: the same position, rotation,
\* dimensions and membership of every space, the same stalk positions, the
\* same obstruction, violations list and success flag; the result does not
\* depend on config.random_seed.
C19_Deterministic ==
    Returned_ =>
        \A seed \in RandomSeeds, hash_seed \in HashSeeds :
            Bind(SolveMassing(building, [config EXCEPT !.random_seed = seed],
                              hash_seed),
                 LAMBDA again :
                    /\ ~again.raised
                    /\ patches = again.patches
                    /\ stalks = again.stalks
                    /\ result.value = again.value)

\* the part that holds: everything but the order in which a violation lists
\* its spaces is the same in the two invocations
C19_DeterministicButListing ==
    Returned_ =>
        \A seed \in RandomSeeds, hash_seed \in HashSeeds :
            Bind(SolveMassing(building, [config EXCEPT !.random_seed = seed],
                              hash_seed),
                 LAMBDA again :
                    /\ ~again.raised
                    /\ patches = again.patches
                    /\ stalks = again.stalks
                    /\ Unordered(result.value) = Unordered(again.value))

\* a solve that returned violations between two spaces, under a random seed
C19_SeededWithViolations ==
    /\ Returned_
    /\ config.random_seed # NoSeed
    /\ \E i \in 1..Len(result.value.violations) :
          Len(result.value.violations[i].spaces) > 1

\* the per-floor instances of the stalks, as <<floor, position in the list>>
StalkInstances ==
    {fi \in UNION {{<<f, i>> : i \in 1..Len(patches[f].spaces)} : f \in DOMAIN patches} :
        patches[fi[1]].spaces[fi[2]].spec.is_vertical}

\* some space of some floor has a position
SomeSpacePlaced ==
    \E f \in DOMAIN patches : \E i \in 1..Len(patches[f].spaces) :
        IsPlaced(patches[f].spaces[i])

\* C20: within one solve_massing call the steps happen in the order
\* construct, place core, place floors, propagate, evaluate: every stalk
\* position is set before any floor's spaces are placed and is not changed
\* afterwards; no per-floor stalk instance has a position before
\* propagation; propagation runs exactly once, after the last floor has been
\* processed; the constraint evaluation and the reported metrics read the
\* state after propagation.
C20_StepOrder ==
    /\ [][/\ pc = "start" => pc' = "core"
          /\ pc = "core" => pc' \in {"floors", "raised"}
          /\ pc = "floors" => pc' \in {"floors", "verify", "raised"}
          /\ pc = "verify" => pc' = "done"
          /\ pc \notin {"done", "raised"}]_vars
    /\ [](pc \in {"start", "core"} => ~SomeSpacePlaced)
    /\ [](pc \in {"floors", "verify", "done"} =>
            \A k \in 1..Len(stalks) : stalks[k].position.placed)
    /\ [][(pc \in {"floors", "verify", "done"}) => (stalks' = stalks)]_vars
    /\ [](pc \in {"start", "core", "floors"} =>
            \A fi \in StalkInstances : ~IsPlaced(patches[fi[1]].spaces[fi[2]]))
    /\ [][(pc = "floors" /\ pc' = "verify") =>
            /\ processed = DOMAIN patches
            /\ patches' = PropagateStalkPositions(patches, stalks)]_vars
    /\ [][(pc \in {"verify", "done"}) => (patches' = patches)]_vars
    /\ [](Returned_ =>
            /\ patches = PropagateStalkPositions(patches, stalks)
            /\ \E hash_seed \in HashSeeds :
                  result.value = SolverResult(patches, stalks, building, config,
                                              hash_seed))

\* after propagation: stalks on several floors, their instances placed, and
\* a placed space that is not an instance of a stalk
C20_Witness ==
    /\ pc = "verify"
    /\ Len(stalks) > 1
    /\ Cardinality(DOMAIN patches) > 1
    /\ StalkInstances # {}
    /\ \A fi \in StalkInstances : IsPlaced(patches[fi[1]].spaces[fi[2]])
    /\ \E f \in DOMAIN patches : \E i \in 1..Len(patches[f].spaces) :
          /\ ~patches[f].spaces[i].spec.is_vertical
          /\ IsPlaced(patches[f].spaces[i])

\* what identifies the Space instances of the sheaf: per floor, the list of
\* (id, floor_index, spec) of patch.spaces
SpaceInstances(ps) ==
    [f \in DOMAIN ps |->
        [i \in 1..Len(ps[f].spaces) |->
            <<ps[f].spaces[i].id, ps[f].spaces[i].floor_index, ps[f].spaces[i].spec>>]]

\* the result counts the constructed spaces, and an unplaced space is still in
\* the patch of its floor, without a position
CountsConstructedSpaces ==
    Returned_ =>
        /\ SpaceInstances(patches) = SpaceInstances(ConstructPatches(building))
        /\ result.value.total_spaces = Len(GetAllSpaces(ConstructPatches(building)))
        /\ result.value.placed_spaces <= result.value.total_spaces
        /\ result.value.total_spaces - result.value.placed_spaces
              = SeqSum([k \in 1..Len(FloorIndices(patches)) |->
                           Len(UnplacedSpaces(patches[FloorIndices(patches)[k]]))])
        /\ \A f \in DOMAIN patches : \A i \in 1..Len(patches[f].spaces) :
              /\ patches[f].spaces[i].floor_index = f
              /\ ~IsPlaced(patches[f].spaces[i]) => patches[f].spaces[i].position = NoPos

\* C22: the Space instances are fixed by construct_sheaf: no later step adds,
\* removes or moves a Space to another floor, so total_spaces is the number of
\* constructed spaces, placed_spaces <= total_spaces, and an unplaced space
\* stays in its FloorPatch with position None.
C22_SpacesFixedByConstruction ==
    /\ []CountsConstructedSpaces
    /\ [][(pc # "start") => (SpaceInstances(patches') = SpaceInstances(patches))]_vars

\* a solve that returned with some spaces placed and some left unplaced
C22_Witness ==
    /\ Returned_
    /\ result.value.placed_spaces > 0
    /\ result.value.placed_spaces < result.value.total_spaces
    /\ \E f \in DOMAIN patches : \E i \in 1..Len(patches[f].spaces) :
          ~patches[f].spaces[i].spec.is_vertical /\ ~IsPlaced(patches[f].spaces[i])

\* the unplaced non-vertical spaces of a floor
UnplacedRooms(f) ==
    {i \in 1..Len(patches[f].spaces) :
        ~patches[f].spaces[i].spec.is_vertical /\ ~IsPlaced(patches[f].spaces[i])}

\* a position search of the floor's heuristic finds a legal cell for the space
LegalCellExists(f, i) ==
    IF patches[f].floor_type = "RESIDENTIAL_TYPICAL"
    THEN LET space == SetFuzzyDimensions(patches[f].spaces[i], patches[f].spaces[i].spec.width_ft, patches[f].spaces[i].spec.height_ft, 100)
             core_zone == ComputeCoreExclusionZone(patches[f], stalks, 2 * U)
         IN  \E c \in ScanPositions(patches[f], space, config) :
                ~HasOverlap(patches[f], core_zone, c[1], c[2], SpaceWidth(space), SpaceHeight(space))
    ELSE \/ /\ patches[f].floor_type \in {"GROUND", "BASEMENT", "PARKING_UNDERGROUND"}
            /\ \E e \in 1..4 : TryPlaceOnEdge(patches[f], i, Edges[e], config).placed
         \/ FindValidPosition(patches[f], i, config).pos.placed

\* the spaces place_floor_spaces hands to the heuristic of the floor's type
OfferedCategories(floor_type) ==
    IF floor_type = "RESIDENTIAL_TYPICAL"
    THEN {"DWELLING_UNIT", "SUPPORT", "STAFF", "CIRCULATION"}
    ELSE IF floor_type = "GROUND"
    THEN {"DWELLING_UNIT", "SUPPORT", "STAFF", "CIRCULATION", "AMENITY_INDOOR", "AMENITY_OUTDOOR"}
    ELSE IF floor_type \in {"BASEMENT", "PARKING_UNDERGROUND"}
    THEN MepCategories \cup {"SUPPORT", "STAFF", "CIRCULATION"}
    ELSE MepCategories \cup {"DWELLING_UNIT", "SUPPORT", "STAFF", "CIRCULATION", "AMENITY_INDOOR", "AMENITY_OUTDOOR"}

\* C27: after solve_massing a non-vertical space is unplaced only if the
\* position search finds no legal cell for it on its floor, whatever its
\* category and the floor's type.
C27_UnplacedOnlyWithoutCell ==
    Returned_ =>
        \A f \in DOMAIN patches : \A i \in UnplacedRooms(f) : ~LegalCellExists(f, i)

\* the same for the spaces whose category the floor's heuristic is given
C27_OfferedUnplacedOnlyWithoutCell ==
    Returned_ =>
        \A f \in DOMAIN patches : \A i \in UnplacedRooms(f) :
            patches[f].spaces[i].spec.category \in OfferedCategories(patches[f].floor_type)
                => ~LegalCellExists(f, i)

\* a returned solve that left an offered space unplaced
C27_Witness ==
    /\ Returned_
    /\ \E f \in DOMAIN patches : \E i \in UnplacedRooms(f) :
          patches[f].spaces[i].spec.category \in OfferedCategories(patches[f].floor_type)

\* the sum of the stair-separation (MinimumDistanceConstraint) violations of
\* build_sheaf_constraints
StairSeparation(ps, sts, b) ==
    LET cs == SelectSeq(BuildSheafConstraints(ps, sts, b),
                        LAMBDA c : c.kind = "MinimumDistanceConstraint")
    IN  TotalViolation(cs, GetAllSpaces(ps))

\* ConstraintSet.total_violation over build_sheaf_constraints, as step 5 of
\* solve_massing computes it
RawTotal(ps, sts, b) == TotalViolation(BuildSheafConstraints(ps, sts, b), GetAllSpaces(ps))

\* C28: for the sheaf solve_massing returns, the raw constraint total equals
\* compute_cohomology() plus the stair-separation violations, so that
\* result.obstruction >= cohomology_obstruction >= 0.
C28_RawTotalIsCohomologyPlusSeparation ==
    Returned_ =>
        /\ RawTotal(patches, stalks, building)
              = ComputeCohomology(patches, stalks) + StairSeparation(patches, stalks, building)
        /\ result.value.obstruction >= 5 * ComputeCohomology(patches, stalks)
        /\ ComputeCohomology(patches, stalks) >= 0

\* a returned solve whose sheaf has boundary or overlap violations and stairs
\* closer than the separation
C28_Witness ==
    /\ Returned_
    /\ ComputeCohomology(patches, stalks) > 0
    /\ StairSeparation(patches, stalks, building) > 0

\* a step leaves every placed non-vertical space with its position, rotation,
\* actual dimensions and membership
PlacementKept ==
    \A f \in DOMAIN patches : \A i \in 1..Len(patches[f].spaces) :
        (~patches[f].spaces[i].spec.is_vertical /\ IsPlaced(patches[f].spaces[i])) =>
            /\ f \in DOMAIN patches' /\ i <= Len(patches'[f].spaces)
            /\ patches'[f].spaces[i].id = patches[f].spaces[i].id
            /\ IsPlaced(patches'[f].spaces[i])
            /\ patches'[f].spaces[i].position = patches[f].spaces[i].position
            /\ patches'[f].spaces[i].rotation = patches[f].spaces[i].rotation
            /\ patches'[f].spaces[i].actual_width = patches[f].spaces[i].actual_width
            /\ patches'[f].spaces[i].actual_height = patches[f].spaces[i].actual_height
            /\ patches'[f].spaces[i].membership = patches[f].spaces[i].membership

\* C29: placement is monotonic within a solve: once a non-vertical Space has
\* a position, no later step of solve_massing changes its position, rotation,
\* actual dimensions or membership, and it never becomes unplaced.
C29_PlacementMonotonic == [][PlacementKept]_vars

\* the positions propagate to the stalk instances of a floor on which rooms
\* were placed before
C29_Witness ==
    /\ pc \in {"verify", "done"}
    /\ \E f \in DOMAIN patches :
          /\ \E i \in 1..Len(patches[f].spaces) :
                ~patches[f].spaces[i].spec.is_vertical /\ IsPlaced(patches[f].spaces[i])
          /\ \E i \in 1..Len(patches[f].spaces) :
                patches[f].spaces[i].spec.is_vertical /\ IsPlaced(patches[f].spaces[i])
    /\ Cardinality({f \in DOMAIN patches :
            \E i \in 1..Len(patches[f].spaces) :
                ~patches[f].spaces[i].spec.is_vertical /\ IsPlaced(patches[f].spaces[i])}) >= 2

(***************************************************************************)
(* solve_massing on buildings with a typical residential floor             *)
(***************************************************************************)
\* unit dimensions in model units: 10 ft and 10.1 ft wide, 5 ft and 8 ft deep
UnitWidths == {10 * U, 10 * U + 2}
UnitHeights == {5 * U, 8 * U}
UnitCounts == 1..4

SizedUnits(width, height, count) ==
    <<DwellingUnit(<<"studio">>, "Studio", (width * height) \div (U * U), width, height, count, "studio")>>

\* two stories (floor 1 is RESIDENTIAL_TYPICAL), with and without a core and
\* a janitor closet on every floor
ResidentialBuildings ==
    {BuildingSpec(2, 0, side, CirculationSpec(e, st, 0),
                  SizedUnits(width, height, count), support, <<>>, <<>>) :
        side \in FloorSides, e \in ElevatorCounts, st \in 0..1,
        width \in UnitWidths, height \in UnitHeights, count \in UnitCounts,
        support \in {<<>>, <<Janitor>>}}

ResidentialInit ==
    /\ pc = "start"
    /\ building \in ResidentialBuildings
    /\ config = DefaultConfig
    /\ patches = <<>>
    /\ stalks = <<>>
    /\ floor_pos = 0
    /\ processed = {}
    /\ result = NoResult

ResidentialSpec == ResidentialInit /\ [][Next]_vars

\* the typical residential floors place_floor_spaces has processed
ProcessedResidential ==
    {f \in processed : f \in DOMAIN patches /\ patches[f].floor_type = "RESIDENTIAL_TYPICAL"}

\* the placed dwelling units and back-of-house spaces of a floor
PlacedRooms(f) == {i \in PlacedOn(f) : ~patches[f].spaces[i].spec.is_vertical}

\* no placed room of the floor intersects the core exclusion zone
ClearOfCore(f) ==
    Bind(ComputeCoreExclusionZone(patches[f], stalks, 2 * U),
         LAMBDA core_zone :
            \A i \in PlacedRooms(f) :
                ~(core_zone.present
                  /\ Intersects(Geometry(patches[f].spaces[i]), core_zone.rect)))

\* C21: after a typical residential floor is processed, no two dwelling units
\* or back-of-house spaces placed on it overlap (intersection area 0) and
\* none intersects the core exclusion zone.
C21_ResidentialFloorDisjoint ==
    \A f \in ProcessedResidential :
        /\ \A i, j \in PlacedRooms(f) :
              i < j => IntersectionArea(Geometry(patches[f].spaces[i]),
                                        Geometry(patches[f].spaces[j])) = 0
        /\ ClearOfCore(f)

\* what has_overlap enforces: at most one square foot of overlap between two
\* rooms, and no room in the core exclusion zone
C21_OverlapAtMostOneSquareFoot ==
    \A f \in ProcessedResidential :
        /\ \A i, j \in PlacedRooms(f) :
              i < j => IntersectionArea(Geometry(patches[f].spaces[i]),
                                        Geometry(patches[f].spaces[j])) <= 1 * U * U
        /\ ClearOfCore(f)

\* a processed residential floor with a core zone and at least three rooms
C21_Witness ==
    \E f \in ProcessedResidential :
        /\ Cardinality(PlacedRooms(f)) >= 3
        /\ \E k \in 1..Len(stalks) : stalks[k].position.placed

(***************************************************************************)
(* find_valid_position and place_generic called on one floor               *)
(***************************************************************************)
\* (width, height) in feet of the room to place and of the space already on
\* the floor, and where that space was placed
RoomSizes == {<<4, 16>>, <<4, 18>>, <<14, 6>>, <<16, 4>>, <<8, 8>>, <<31, 6>>, <<36, 8>>}
DeckSizes == {<<16, 12>>, <<20, 20>>}
DeckPositions == {Pos(-2 * U, -4 * U), Pos(0, 0), Pos(2 * U, 2 * U)}

RoomSpec(size) ==
    SpaceSpec(<<"room">>, "SUPPORT", "Room", size[1] * size[2], size[1] * U, size[2] * U, 1, "ROOF", FALSE)
DeckSpec(size) ==
    SpaceSpec(<<"deck">>, "AMENITY_OUTDOOR", "Roof Deck", size[1] * size[2], size[1] * U, size[2] * U, 1, "ROOF", FALSE)

\* the spaces of the floor: the room alone, or a placed deck and the room
RoofSpaces(room) ==
    { <<Space(InstanceId(<<"room">>, 1), RoomSpec(room), 1, SupportPriority)>> }
    \cup { << [Space(InstanceId(<<"deck">>, 1), DeckSpec(deck), 1, OtherPriority)
                  EXCEPT !.position = at],
              Space(InstanceId(<<"room">>, 1), RoomSpec(room), 1, SupportPriority) >> :
            deck \in DeckSizes, at \in DeckPositions }

\* floor 1 of a two-story building with a roof deck: an AMENITY floor
RoofBuilding(side, room) ==
    BuildingSpec(2, 0, side, CirculationSpec(0, 0, 0), <<>>, <<RoomSpec(room)>>, <<DeckSpec(<<16, 12>>)>>, <<>>)

RoofInit ==
    /\ pc = "start"
    /\ \E side \in FloorSides, room \in RoomSizes :
          /\ building = RoofBuilding(side, room)
          /\ \E spaces \in RoofSpaces(room) :
                patches = [f \in {1} |-> [NewPatches(building)[1] EXCEPT !.spaces = spaces]]
    /\ config \in {DefaultConfig, [DefaultConfig EXCEPT !.allow_rotation = FALSE]}
    /\ stalks = <<>>
    /\ floor_pos = 0
    /\ processed = {}
    /\ result = NoResult

\* the room is the last space of the floor
RoomIndex == Len(patches[1].spaces)

\* pos = find_valid_position(patch, space, config); if pos: space.place(pos.x, pos.y)
CallFindValidPosition ==
    /\ pc = "start"
    /\ result' = [returned |-> TRUE,
                  value |-> FindValidPosition(patches[1], RoomIndex, config)]
    /\ patches' = [patches EXCEPT ![1] = FindAndPlace(@, RoomIndex, config)]
    /\ pc' = "found"
    /\ UNCHANGED <<building, config, stalks, floor_pos, processed>>

FindSpec == RoofInit /\ [][CallFindValidPosition]_vars

\* the room after the call, and the rectangle is_position_valid accepted
PlacedRoom == patches[1].spaces[RoomIndex]
AcceptedRectangle ==
    Rectangle(result.value.pos.x, result.value.pos.y, PlacedRoom.spec.width_ft, PlacedRoom.spec.height_ft, result.value.rotation)

FoundRotated == pc = "found" /\ result.value.pos.placed /\ result.value.rotation = 90
FoundNothing == pc = "found" /\ ~result.value.pos.placed

\* C23: a cell found only in the rotated pass is committed with rotation 90,
\* the committed geometry being the rectangle is_position_valid accepted; when
\* both passes fail the rotation is back at 0 and the space stays unplaced.
C23_RotatedCommitted ==
    /\ FoundRotated =>
          /\ IsPlaced(PlacedRoom)
          /\ PlacedRoom.rotation = 90
          /\ Geometry(PlacedRoom) = AcceptedRectangle
    /\ FoundNothing => ~IsPlaced(PlacedRoom) /\ PlacedRoom.rotation = 0

\* what the code does: the cell is committed, with rotation 0
C23_RotatedCommittedUnrotated ==
    /\ FoundRotated =>
          /\ IsPlaced(PlacedRoom)
          /\ PlacedRoom.position = result.value.pos
          /\ PlacedRoom.rotation = 0
    /\ FoundNothing => ~IsPlaced(PlacedRoom) /\ PlacedRoom.rotation = 0

\* the rotated pass found a cell next to the deck; both passes failed with
\* rotation allowed
C23_FoundRotatedBesideDeck == FoundRotated /\ RoomIndex = 2
C23_BothPassesFailed ==
    FoundNothing /\ config.allow_rotation /\ PlacedRoom.spec.width_ft # PlacedRoom.spec.height_ft

\* place_generic(patch, [space], config)
CallPlaceGeneric ==
    /\ pc = "start"
    /\ \E r \in {PlaceGeneric(patches[1], <<RoomIndex>>, config)} :
          /\ patches' = [patches EXCEPT ![1] = r.value]
          /\ result' = [returned |-> ~r.raised]
    /\ pc' = "placed"
    /\ UNCHANGED <<building, config, stalks, floor_pos, processed>>

PlaceGenericSpec == RoofInit /\ [][CallPlaceGeneric]_vars

\* the committed rectangle of the room lies in the floor and intersects no
\* space placed before it
CommittedInsideAndClear ==
    /\ PolyContainsRectangle(patches[1].domain, Geometry(PlacedRoom))
    /\ \A k \in 1..(RoomIndex - 1) :
          IsPlaced(patches[1].spaces[k]) =>
              ~Intersects(Geometry(PlacedRoom), Geometry(patches[1].spaces[k]))

PlacedByGeneric == pc = "placed" /\ IsPlaced(PlacedRoom)

\* C24: every space placed by place_generic has a committed rectangle, built
\* from its actual dimensions when fuzzy scaling applied and its spec
\* dimensions otherwise, that lies inside the floor boundary and intersects no
\* space placed on the floor before it.
C24_CommittedRectangleLegal == PlacedByGeneric => CommittedInsideAndClear

\* the same for the spaces committed unrotated with their spec dimensions
C24_UnscaledUnrotatedLegal ==
    (PlacedByGeneric /\ ~config.allow_rotation /\ PlacedRoom.actual_width = PlacedRoom.spec.width_ft /\ PlacedRoom.actual_height = PlacedRoom.spec.height_ft)
        => CommittedInsideAndClear

\* the same with rotation switched off, whatever the scaling
C24_UnrotatedLegal == (PlacedByGeneric /\ ~config.allow_rotation) => CommittedInsideAndClear

\* a scaled room placed beside the deck
C24_ScaledPlacedBesideDeck ==
    /\ PlacedByGeneric
    /\ RoomIndex = 2
    /\ PlacedRoom.actual_width # NoDim
    /\ PlacedRoom.actual_width # PlacedRoom.spec.width_ft

(***************************************************************************)
(* place_vertical_core on cores of up to four stairs and two elevators     *)
(***************************************************************************)
MaxCoreStairs == 4
MaxCoreElevators == 2

CoreBuildings ==
    {BuildingSpec(above, below, side, CirculationSpec(e, st, 0), <<>>, <<>>, <<>>, <<>>) :
        above \in 1..2, below \in 0..1, side \in FloorSides,
        e \in 0..MaxCoreElevators, st \in 0..MaxCoreStairs}

CoreInit ==
    /\ pc = "start"
    /\ building \in CoreBuildings
    /\ config = DefaultConfig
    /\ patches = <<>>
    /\ stalks = <<>>
    /\ floor_pos = 0
    /\ processed = {}
    /\ result = NoResult

\* construct_sheaf, then place_vertical_core
CoreNext == ConstructSheaf \/ PlaceCore

CoreSpec == CoreInit /\ [][CoreNext]_vars

\* the rectangle of a placed stalk
StalkRectangle(st) ==
    Rectangle(st.position.x, st.position.y, st.spec.width_ft, st.spec.height_ft, st.rotation)

CorePlaced == pc = "floors"

AllStalksPlaced == \A k \in 1..Len(stalks) : stalks[k].position.placed

StalksDisjoint ==
    \A j, k \in 1..Len(stalks) :
        j < k => IntersectionArea(StalkRectangle(stalks[j]), StalkRectangle(stalks[k])) = 0

\* C25: after place_vertical_core every stalk is placed and no two stalks'
\* rectangles overlap, for every number of elevators and stairs.
C25_CoreDisjoint == CorePlaced => AllStalksPlaced /\ StalksDisjoint

\* every stalk is placed; with at most two stairs no two stalks overlap
C25_CorePlacedRowDisjoint ==
    CorePlaced =>
        /\ AllStalksPlaced
        /\ building.circulation.stair_count <= 2 => StalksDisjoint

\* a core of two elevators and two stairs has been placed
C25_Witness ==
    /\ CorePlaced
    /\ building.circulation.stair_count = 2
    /\ building.circulation.elevator_passenger_count = 2

(***************************************************************************)
(* solve_massing on buildings with ten stairs                              *)
(***************************************************************************)
ManyStairs == 10

ManyStairsBuildings ==
    {BuildingSpec(above, 0, side, CirculationSpec(e, st, 0), <<>>, <<>>, <<>>, <<>>) :
        above \in 1..2, side \in FloorSides, e \in ElevatorCounts,
        st \in {2, ManyStairs - 1, ManyStairs, ManyStairs + 1}}

ManyStairsInit ==
    /\ pc = "start"
    /\ building \in ManyStairsBuildings
    /\ config = DefaultConfig
    /\ patches = <<>>
    /\ stalks = <<>>
    /\ floor_pos = 0
    /\ processed = {}
    /\ result = NoResult

ManyStairsSpec == ManyStairsInit /\ [][Next]_vars

\* the ids of a stalk's own instances, floor by floor
OwnInstanceIds(st) ==
    LET floors == SelectSeq(StalkFloors(st), LAMBDA f : f \in DOMAIN patches)
    IN  [k \in 1..Len(floors) |-> InstanceId(st.id, floors[k])]

\* the alignment constraints of build_sheaf_constraints all evaluate to 0
AlignmentConstraintsVanish ==
    Bind(GetAllSpaces(patches),
         LAMBDA all_spaces :
            \A k \in 1..Len(stalks) :
                LET cs == AlignmentConstraints(patches, stalks[k])
                IN  \A i \in 1..Len(cs) : EvalAlignment(cs[i], all_spaces) = Returned(0))

\* C26: the spaces grouped under a stalk by build_sheaf_constraints and by
\* compute_cohomology are exactly the stalk's own per-floor instances, so
\* after solve_massing every AlignmentConstraint evaluates to 0 and the
\* alignment term of compute_cohomology is 0, for every number of stairs.
C26_OwnInstancesAligned ==
    Returned_ =>
        /\ \A k \in 1..Len(stalks) :
              /\ StalkSpaceIds(patches, stalks[k], StalkFloors(stalks[k])) = OwnInstanceIds(stalks[k])
              /\ CohomologyAlignment(patches, stalks[k]) = 0
        /\ AlignmentConstraintsVanish

\* the same for the buildings in which no stalk id is a prefix of another's
C26_AlignedBelowTenOfAKind ==
    (Returned_ /\ building.circulation.stair_count < 10) =>
        /\ \A k \in 1..Len(stalks) :
              /\ StalkSpaceIds(patches, stalks[k], StalkFloors(stalks[k])) = OwnInstanceIds(stalks[k])
              /\ CohomologyAlignment(patches, stalks[k]) = 0
        /\ AlignmentConstraintsVanish

\* a returned solve of two floors with nine stairs
C26_Witness ==
    /\ Returned_
    /\ building.circulation.stair_count = 9
    /\ Cardinality(DOMAIN patches) = 2

(***************************************************************************)
(* construct_sheaf called on its own                                       *)
(***************************************************************************)
OneBedUnits(count) ==
    <<DwellingUnit(<<"1br">>, "One Bedroom", 300, 20 * U, 15 * U, count, "1br")>>

\* the dwelling_units lists: none, one spec, two specs of one type around a
\* spec of another type
UnitMixes ==
    {<<>>}
    \cup {StudioUnits(count) : count \in 1..(MaxUnitCount + 1)}
    \cup {StudioUnits(count) \o OneBedUnits(1) \o StudioUnits(1) :
            count \in 1..MaxUnitCount}

\* the members of FloorAssignment
FloorAssignments ==
    {"GROUND", "BASEMENT", "TYPICAL", "PODIUM", "ROOF", "ALL", "ALL_RESIDENTIAL",
     "VERTICAL"}

\* a 6 x 6 room of the given category, floor assignment and count
Room(category, floor_assignment, count) ==
    SpaceSpec(<<"room">>, category, "Room", 36, 6 * U, 6 * U, count,
              floor_assignment, FALSE)

\* the lists support_spaces, staff_spaces, amenity_indoor, mep_spaces: a room
\* in one of them
RoomProgrammes ==
    {[support_spaces |-> IF l = "support" THEN <<Room("SUPPORT", a, n)>> ELSE <<>>,
      staff_spaces |-> IF l = "staff" THEN <<Room("STAFF", a, n)>> ELSE <<>>,
      amenity_indoor |-> IF l = "amenity" THEN <<Room("AMENITY_INDOOR", a, n)>> ELSE <<>>,
      mep_spaces |-> IF l = "mep" THEN <<Room("MECHANICAL", a, n)>> ELSE <<>>] :
        l \in {"support", "staff", "amenity", "mep"}, a \in FloorAssignments,
        n \in 1..2}

\* story_distribution and stalls: no parking, podium parking, underground parking
ParkingChoices ==
    {[parking_stories10 |-> 0, podium_stalls |-> 0, underground_stalls |-> 0],
     [parking_stories10 |-> 15, podium_stalls |-> 5, underground_stalls |-> 0],
     [parking_stories10 |-> 10, podium_stalls |-> 0, underground_stalls |-> 4]}

\* no circulation at all, or elevators of both kinds, stairs and a lobby
CirculationChoices ==
    {CirculationSpec(0, 0, 0),
     [CirculationSpec(1, MaxStairs, 256) EXCEPT !.elevator_freight_count = 1,
                                                !.elevator_freight_sf = 80]}

ConstructBuildings ==
    {[BuildingSpec(above, below, 40, c, units, r.support_spaces, outdoor,
                   r.mep_spaces)
        EXCEPT !.staff_spaces = r.staff_spaces,
               !.amenity_indoor = r.amenity_indoor,
               !.parking_stories10 = p.parking_stories10,
               !.podium_stalls = p.podium_stalls,
               !.underground_stalls = p.underground_stalls] :
        above \in 0..(MaxStories + 1), below \in 0..1, c \in CirculationChoices,
        units \in UnitMixes, r \in RoomProgrammes,
        outdoor \in {<<>>, <<RoofDeck>>}, p \in ParkingChoices}

ConstructInit ==
    /\ pc = "start"
    /\ building \in ConstructBuildings
    /\ config = DefaultConfig
    /\ patches = <<>>
    /\ stalks = <<>>
    /\ floor_pos = 0
    /\ processed = {}
    /\ result = NoResult

ConstructSpec == ConstructInit /\ [][ConstructSheaf]_vars

(***************************************************************************)
(* Properties of construct_sheaf                                           *)
(***************************************************************************)
Constructed == pc = "core"

\* the typical-residential floors of the sheaf, ascending
ResidentialFloors ==
    SelectSeq(FloorIndices(patches),
              LAMBDA f : patches[f].floor_type = "RESIDENTIAL_TYPICAL")

\* the places <<floor, position in the floor's list>> of the sheaf
Places == UNION {{<<f, i>> : i \in 1..Len(patches[f].spaces)} : f \in DOMAIN patches}
SpaceAt(fi) == patches[fi[1]].spaces[fi[2]]
Holders(id) == {fi \in Places : SpaceAt(fi).id = id}

\* the number of units of a dwelling type the building asks for
UnitsOfType(t) ==
    SeqSum([k \in 1..Len(building.dwelling_units) |->
               IF building.dwelling_units[k].dwelling_type = t
               THEN building.dwelling_units[k].count ELSE 0])

\* the spaces of a dwelling type on a floor
UnitsOn(f, t) ==
    {i \in 1..Len(patches[f].spaces) :
        /\ patches[f].spaces[i].spec.category = "DWELLING_UNIT"
        /\ patches[f].spaces[i].spec.dwelling_type = t}

\* C12: construct_sheaf turns every dwelling unit of the building (each of
\* unit_spec.count, for each dwelling-unit spec) into exactly one unplaced
\* Space on a typical-residential floor; the k-th unit of a type is on
\* residential floor number (k-1) mod n of the n typical-residential floors,
\* and the per-floor counts of each type differ by at most 1.
C12_UnitsRoundRobin ==
    Constructed =>
        \A t \in DwellingTypes :
            /\ \A k \in 1..UnitsOfType(t) :
                  LET unit == Holders(<<"unit_", t, "_">> \o Digits(k))
                  IN  /\ Cardinality(unit) = 1
                      /\ \A fi \in unit :
                            /\ ~IsPlaced(SpaceAt(fi))
                            /\ SpaceAt(fi).spec.dwelling_type = t
                            /\ patches[fi[1]].floor_type = "RESIDENTIAL_TYPICAL"
                            /\ fi[1] = ResidentialFloors[
                                   ((k - 1) % Len(ResidentialFloors)) + 1]
            /\ Cardinality({fi \in Places : fi[2] \in UnitsOn(fi[1], t)})
                   = UnitsOfType(t)
            /\ \A f, g \in DOMAIN patches :
                  (/\ patches[f].floor_type = "RESIDENTIAL_TYPICAL"
                   /\ patches[g].floor_type = "RESIDENTIAL_TYPICAL")
                  => Abs(Cardinality(UnitsOn(f, t)) - Cardinality(UnitsOn(g, t))) <= 1

\* the same with a typical-residential floor in the building
C12_RoundRobinOnResidentialFloors ==
    (Constructed /\ ResidentialFloors = <<>>) \/ C12_UnitsRoundRobin

\* units of one type on two typical-residential floors, more units than floors
C12_Distributed ==
    /\ Constructed
    /\ Len(ResidentialFloors) >= 2
    /\ \E t \in DwellingTypes :
          /\ UnitsOfType(t) > Len(ResidentialFloors)
          /\ \E f, g \in DOMAIN patches :
                Cardinality(UnitsOn(f, t)) > Cardinality(UnitsOn(g, t))
                /\ UnitsOn(g, t) # {}

\* the specs construct_sheaf hands to assign_space_to_floors
NonDwellingSpecs ==
    SelectSeq(CreateCirculationSpaces(building.circulation),
              LAMBDA sp : ~sp.is_vertical)
    \o building.support_spaces \o building.staff_spaces
    \o building.amenity_indoor \o building.mep_spaces

\* the floors of the sheaf a floor_assignment rule selects
RuleFloors(a) ==
    CASE a = "GROUND" -> {0}
      [] a = "BASEMENT" -> {f \in DOMAIN patches : f < 0}
      [] a = "TYPICAL" ->
            {f \in DOMAIN patches : patches[f].floor_type = "RESIDENTIAL_TYPICAL"}
      [] a = "ALL" -> DOMAIN patches
      [] a = "ALL_RESIDENTIAL" ->
            {f \in DOMAIN patches :
                patches[f].floor_type \in {"RESIDENTIAL_TYPICAL", "GROUND", "PODIUM"}}
      [] a = "ROOF" -> {IF DOMAIN patches = {} THEN 0 ELSE SetMax(DOMAIN patches)}
      [] a = "PODIUM" -> {f \in DOMAIN patches : patches[f].floor_type = "PODIUM"}
      [] OTHER -> {}

\* the floors a spec is to be found on: those of its rule, else the ground floor
TargetFloors(spec) ==
    IF RuleFloors(spec.floor_assignment) = {} THEN {0}
    ELSE RuleFloors(spec.floor_assignment)

\* the instances of a spec on a floor
InstancesOn(f, spec) ==
    {i \in 1..Len(patches[f].spaces) : patches[f].spaces[i].spec = spec}

\* C13: for every non-dwelling, non-vertical spec (support, staff, indoor
\* amenity, MEP, non-vertical circulation) the sheaf holds spec.count unplaced
\* instances on each floor its floor_assignment rule selects, and on the
\* ground floor (index 0) when the rule selects no floor; no spec is dropped.
C13_EverySpecAssigned ==
    Constructed =>
        \A k \in 1..Len(NonDwellingSpecs) :
            \A f \in TargetFloors(NonDwellingSpecs[k]) :
                /\ f \in DOMAIN patches
                /\ Cardinality(InstancesOn(f, NonDwellingSpecs[k]))
                       = NonDwellingSpecs[k].count
                /\ \A i \in InstancesOn(f, NonDwellingSpecs[k]) :
                      ~IsPlaced(patches[f].spaces[i])

\* the same for the buildings that have a ground floor
C13_AssignedAboveGrade ==
    (Constructed /\ building.stories_above_grade = 0) \/ C13_EverySpecAssigned

\* a rule that selects no floor, its instances on the ground floor
C13_DefaultedToGround ==
    /\ Constructed
    /\ \E k \in 1..Len(NonDwellingSpecs) :
          /\ RuleFloors(NonDwellingSpecs[k].floor_assignment) = {}
          /\ NonDwellingSpecs[k].count > 1
          /\ 0 \in DOMAIN patches
          /\ Cardinality(InstancesOn(0, NonDwellingSpecs[k])) > 1

\* the ids of the vertical circulation elements of the building
VerticalIds ==
    {<<"elevator_passenger_">> \o Digits(i) :
        i \in 1..building.circulation.elevator_passenger_count}
    \cup {<<"elevator_freight_">> \o Digits(i) :
        i \in 1..building.circulation.elevator_freight_count}
    \cup {<<"stair_">> \o Digits(i) : i \in 1..building.circulation.stair_count}

\* C14: construct_sheaf builds exactly one FloorPatch for each floor index in
\* [-stories_below_grade, stories_above_grade - 1] and no other; every
\* vertical circulation element has one unplaced stalk spanning that range
\* and, on every floor of the range, exactly one Space with the id
\* {stalk_id}_f{floor_index}, unplaced.
C14_PatchesAndStalks ==
    Constructed =>
        /\ DOMAIN patches =
              (-building.stories_below_grade)..(building.stories_above_grade - 1)
        /\ \A f \in DOMAIN patches : patches[f].index = f
        /\ Len(stalks) = Cardinality(VerticalIds)
        /\ \A id \in VerticalIds :
              /\ Cardinality({k \in 1..Len(stalks) : stalks[k].id = id}) = 1
              /\ \A k \in 1..Len(stalks) :
                    stalks[k].id = id =>
                        /\ ~stalks[k].position.placed
                        /\ stalks[k].floor_range =
                              <<-building.stories_below_grade,
                                building.stories_above_grade - 1>>
              /\ \A f \in DOMAIN patches :
                    /\ Cardinality(Holders(id \o <<"_f">> \o IntStr(f))) = 1
                    /\ \A fi \in Holders(id \o <<"_f">> \o IntStr(f)) :
                          fi[1] = f /\ ~IsPlaced(SpaceAt(fi))

\* a sheaf with a floor below grade, floors above it and several stalks
C14_Witness ==
    /\ Constructed
    /\ building.stories_below_grade > 0
    /\ building.stories_above_grade > 1
    /\ Len(stalks) > 2
    /\ \A f \in DOMAIN patches : Len(patches[f].spaces) >= Len(stalks)

(***************************************************************************)
(* BuildingSpec.get_floor_type called on its own                           *)
(***************************************************************************)
\* story_distribution.parking in tenths of a story
ParkingStories10 == {0, 5, 10, 15, 20, 25}

FloorTypeBuildings ==
    {[BuildingSpec(above, below, 40, CirculationSpec(0, 0, 0), <<>>, <<>>,
                   outdoor, <<>>)
        EXCEPT !.parking_stories10 = parking,
               !.podium_stalls = podium,
               !.underground_stalls = underground] :
        above \in 0..(MaxStories + 2), below \in 0..1,
        outdoor \in {<<>>, <<RoofDeck>>}, parking \in ParkingStories10,
        podium \in {0, 3}, underground \in {0, 4}}

\* the floor indices asked for, some outside the building
FloorIndexInputs == (-2)..(MaxStories + 2)

FloorTypeInit ==
    /\ pc = "start"
    /\ building \in FloorTypeBuildings
    /\ config = DefaultConfig
    /\ patches = <<>>
    /\ stalks = <<>>
    /\ floor_pos = 0
    /\ processed = {}
    /\ result = NoResult

\* building.get_floor_type(floor_index); floor_pos holds the index asked for
CallGetFloorType ==
    /\ pc \in {"start", "floor_type"}
    /\ \E floor_index \in FloorIndexInputs :
          /\ floor_pos' = floor_index
          /\ result' = [returned |-> TRUE,
                        value |-> GetFloorType(building, floor_index)]
    /\ pc' = "floor_type"
    /\ UNCHANGED <<building, config, patches, stalks, processed>>

FloorTypeSpec == FloorTypeInit /\ [][CallGetFloorType]_vars

\* the least whole number of stories not below story_distribution.parking
CeilParkingStories ==
    CHOOSE n \in 0..building.parking_stories10 :
        /\ 10 * n >= building.parking_stories10
        /\ \A m \in 0..building.parking_stories10 :
              10 * m >= building.parking_stories10 => n <= m

IsPodiumIndex ==
    /\ floor_pos >= 1
    /\ floor_pos < Max2(1, CeilParkingStories)
    /\ building.podium_stalls > 0

IsAmenityIndex ==
    /\ floor_pos >= 1
    /\ ~IsPodiumIndex
    /\ floor_pos = building.stories_above_grade - 1
    /\ building.amenity_outdoor # <<>>

\* C15: get_floor_type returns a floor type for every index: a negative index
\* gives underground parking if underground stalls exist and basement
\* otherwise; index 0 gives ground; an index >= 1 below residential_start =
\* max(1, ceil(parking stories)) gives podium parking if podium stalls exist;
\* otherwise the topmost above-grade index gives amenity if outdoor amenities
\* exist; every remaining index gives typical residential; a second call
\* with the same spec and index returns the same type.
C15_FloorTypeRule ==
    /\ [](pc = "floor_type" =>
            /\ result.returned
            /\ (floor_pos < 0 /\ building.underground_stalls > 0)
                  => result.value = "PARKING_UNDERGROUND"
            /\ (floor_pos < 0 /\ building.underground_stalls = 0)
                  => result.value = "BASEMENT"
            /\ floor_pos = 0 => result.value = "GROUND"
            /\ IsPodiumIndex => result.value = "PARKING_PODIUM"
            /\ IsAmenityIndex => result.value = "AMENITY"
            /\ (floor_pos >= 1 /\ ~IsPodiumIndex /\ ~IsAmenityIndex)
                  => result.value = "RESIDENTIAL_TYPICAL")
    /\ [][(pc = "floor_type" /\ floor_pos' = floor_pos) => result' = result]_vars

\* the topmost floor of a building with an outdoor amenity is podium parking
C15_Witness ==
    /\ pc = "floor_type"
    /\ floor_pos = building.stories_above_grade - 1
    /\ building.amenity_outdoor # <<>>
    /\ building.parking_stories10 = 15
    /\ result.value = "PARKING_PODIUM"

(***************************************************************************)
(* The functions of fuzzy.py and Rectangle.intersects called on their own; *)
(* result holds the arguments of the last call and what it returned        *)
(***************************************************************************)
MaxArea == 12

\* tolerances in hundredths
Tolerances == {0, 15, 25, 50, 100, 200}

MembershipInit ==
    /\ pc = "start"
    /\ building \in {SingleUnitBuilding}
    /\ config \in {[DefaultConfig EXCEPT !.fuzzy.area_tolerance = tolerance] :
                      tolerance \in Tolerances}
    /\ patches = <<>>
    /\ stalks = <<>>
    /\ floor_pos = 0
    /\ processed = {}
    /\ result = NoResult

\* fuzzy_area_membership(actual, target, config.area_tolerance)
CallFuzzyAreaMembership ==
    /\ pc \in {"start", "membership"}
    /\ \E actual \in 0..(2 * MaxArea), target \in 0..MaxArea :
          result' = [returned |-> TRUE, actual |-> actual, target |-> target,
                     value |-> FuzzyAreaMembershipQ(actual, target,
                                                    config.fuzzy.area_tolerance)]
    /\ pc' = "membership"
    /\ UNCHANGED <<building, config, patches, stalks, floor_pos, processed>>

MembershipSpec == MembershipInit /\ [][CallFuzzyAreaMembership]_vars

\* |actual - target| / target of the last call exceeds the tolerance
BeyondTolerance ==
    100 * Abs(result.actual - result.target)
        > config.fuzzy.area_tolerance * result.target

\* the deviation |actual - target| / target grows from this call to the next
DeviationGrows ==
    /\ result'.target = result.target
    /\ Abs(result'.actual - result'.target) > Abs(result.actual - result.target)

\* the membership of the next call is below that of this call
MembershipDrops ==
    result'.value.num * result.value.den < result.value.num * result'.value.den

ScaleModes == {"proportional", "height_priority", "width_priority"}

\* target and maximum dimensions, in feet
TargetFeet == {4, 8, 20, 36, 40}
MaxFeet == {6, 12, 19, 20, 50}

ScaleInit ==
    /\ pc = "start"
    /\ building \in {SingleUnitBuilding}
    /\ config \in {[DefaultConfig EXCEPT !.fuzzy.scale_mode = mode] :
                      mode \in ScaleModes}
    /\ patches = <<>>
    /\ stalks = <<>>
    /\ floor_pos = 0
    /\ processed = {}
    /\ result = NoResult

\* fuzzy_scale_to_fit(target_width, target_height, max_width, max_height,
\* config.fuzzy)
CallFuzzyScaleToFit ==
    /\ pc \in {"start", "scaled"}
    /\ \E tw \in TargetFeet, th \in TargetFeet, mw \in MaxFeet, mh \in MaxFeet :
          result' = [returned |-> TRUE, max_width |-> mw * U, max_height |-> mh * U,
                     value |-> FuzzyScaleToFit(tw * U, th * U, mw * U, mh * U,
                                               config.fuzzy)]
    /\ pc' = "scaled"
    /\ UNCHANGED <<building, config, patches, stalks, floor_pos, processed>>

ScaleSpec == ScaleInit /\ [][CallFuzzyScaleToFit]_vars

\* actual_width / actual_height of the returned FuzzySpace is in the band
AspectInBand ==
    /\ 100 * result.value.actual_width
          >= config.fuzzy.aspect_ratio_min * result.value.actual_height
    /\ 100 * result.value.actual_width
          <= config.fuzzy.aspect_ratio_max * result.value.actual_height

\* actual_area and membership of the returned FuzzySpace are those of its
\* dimensions
AreaRecomputed ==
    /\ result.value.actual_area
          = result.value.actual_width * result.value.actual_height
    /\ result.value.target_area
          = result.value.target_width * result.value.target_height
    /\ result.value.membership
          = FuzzyAreaMembership(
                (result.value.actual_width * result.value.actual_height) \div 4,
                (result.value.target_width * result.value.target_height) \div 4,
                config.fuzzy.area_tolerance)

\* C17: for every input of fuzzy_scale_to_fit, in each of the three scale
\* modes, the returned actual_width / actual_height lies within
\* [aspect_ratio_min, aspect_ratio_max], and the returned actual_area and
\* membership are the ones recomputed from the returned dimensions.
C17_AspectWithinBand ==
    pc = "scaled" => (AspectInBand /\ AreaRecomputed)

\* the part that holds: area and membership follow the returned dimensions
C17_AreaAndMembershipRecomputed ==
    pc = "scaled" => AreaRecomputed

\* a target that does not fit, scaled down, and its ratio outside the band
C17_ScaledOutsideBand ==
    /\ pc = "scaled"
    /\ \/ result.value.target_width > result.max_width
       \/ result.value.target_height > result.max_height
    /\ result.value.actual_width # result.value.target_width
    /\ ~AspectInBand

\* the result is one a caller accepts: membership >= config.min_membership
Accepted == result.value.membership >= config.fuzzy.min_membership

\* the returned dimensions fit the allotted area
FitsAllotted ==
    /\ result.value.actual_width <= result.max_width
    /\ result.value.actual_height <= result.max_height

\* the scale the allotted area asks for is not below the shrink limit
\* sqrt(1 - max_shrink): min(scale_w, scale_h)^2 >= 1 - max_shrink
AboveShrinkLimit ==
    /\ 100 * result.max_width * result.max_width
          >= (100 - config.fuzzy.max_shrink) * result.value.target_width * result.value.target_width
    /\ 100 * result.max_height * result.max_height
          >= (100 - config.fuzzy.max_shrink) * result.value.target_height * result.value.target_height

\* C30: in proportional mode, whenever fuzzy_scale_to_fit returns a
\* membership >= config.min_membership, the returned dimensions fit the
\* allotted area: actual_width <= max_width and actual_height <= max_height.
C30_AcceptedFitsAllotted ==
    (pc = "scaled" /\ config.fuzzy.scale_mode = "proportional" /\ Accepted) => FitsAllotted

\* the part that holds: the dimensions fit whenever the scale asked for is
\* not below the shrink limit
C30_FitsAboveShrinkLimit ==
    (pc = "scaled" /\ config.fuzzy.scale_mode = "proportional" /\ AboveShrinkLimit)
        => FitsAllotted

\* an accepted proportional result that was scaled down to the allotted area
C30_AcceptedScaledDown ==
    /\ pc = "scaled" /\ config.fuzzy.scale_mode = "proportional" /\ Accepted
    /\ AboveShrinkLimit
    /\ result.value.actual_width < result.value.target_width
    /\ FitsAllotted

MaxOffset == 7

\* widths and heights of the rectangles, in units, and their rotations
RectWidths == {2, 4}
RectHeights == {2, 6}
RightAngles == {0, 90, 180, 270}

IntersectInit ==
    /\ pc = "start"
    /\ building \in {SingleUnitBuilding}
    /\ config \in {DefaultConfig}
    /\ patches = <<>>
    /\ stalks = <<>>
    /\ floor_pos = 0
    /\ processed = {}
    /\ \E w \in RectWidths, h \in RectHeights, rot \in RightAngles :
          result = [returned |-> FALSE, a |-> Rectangle(0, 0, w, h, rot)]

\* a.intersects(b) for the rectangle a of the initial state and any b
CallIntersects ==
    /\ pc = "start"
    /\ \E x \in (-MaxOffset)..MaxOffset, y \in (-MaxOffset)..MaxOffset,
          w \in RectWidths, h \in RectHeights, rot \in RightAngles :
          result' = [returned |-> TRUE, a |-> result.a,
                     b |-> Rectangle(x, y, w, h, rot),
                     value |-> Intersects(result.a, Rectangle(x, y, w, h, rot))]
    /\ pc' = "intersects"
    /\ UNCHANGED <<building, config, patches, stalks, floor_pos, processed>>

IntersectSpec == IntersectInit /\ [][CallIntersects]_vars

\* b is a translated by (a.effective_width, 0)
TranslatedByWidth ==
    result.b = [result.a EXCEPT !.x = @ + EffectiveWidth(result.a)]

\* how far the two rectangles overlap along x and along y (negative: a gap)
OverlapX ==
    Min2(Right(result.a), Right(result.b)) - Max2(Left(result.a), Left(result.b))
OverlapY ==
    Min2(Top(result.a), Top(result.b)) - Max2(Bottom(result.a), Bottom(result.b))

\* the rectangles meet, and only in an edge or a corner
ShareOnlyBoundary ==
    /\ OverlapX >= 0 /\ OverlapY >= 0
    /\ OverlapX = 0 \/ OverlapY = 0

C18_SmallOverlap ==
    /\ pc = "intersects"
    /\ OverlapX = 1 /\ OverlapY = 1
    /\ result.value

(***************************************************************************)
(* Hand-constructed sheaves: two stalks on two floors, built through the   *)
(* constructors and place(), then queried                                  *)
(***************************************************************************)
HandSpec(id) ==
    SpaceSpec(id, "CIRCULATION", "Stair", 64, 8 * U, 8 * U, 1, "VERTICAL", TRUE)

HandBuilding ==
    BuildingSpec(2, 0, 24, CirculationSpec(0, 0, 0), <<>>, <<>>, <<>>, <<>>)

\* the pairs of stalk ids: distinct numbers, and a number that extends the other
StalkIdPairs ==
    { << <<"stair_">> \o Digits(1), <<"stair_">> \o Digits(2) >>,
      << <<"stair_">> \o Digits(1), <<"stair_">> \o Digits(10) >> }

\* where a space may have been placed: not at all, or on the x axis
GroundPositions == {NoPos} \cup {Pos(x * U, 0) : x \in {-8, -4, 8, 12}}
UpperPositions == {NoPos} \cup {Pos(x * U, 0) : x \in {-8, 8}}
StalkPositionChoices == {NoPos, Pos(-8 * U, 0), Pos(8 * U, 0)}

\* the sheaf: FloorPatch(...), add_space(Space(...)), space.place(x, y)
HandPatches(ids, pos) ==
    [f \in 0..1 |->
        [index |-> f,
         floor_type |-> GetFloorType(HandBuilding, f),
         domain |-> PolygonRectangle(FloorPlateWidth(HandBuilding),
                                     FloorPlateWidth(HandBuilding)),
         spaces |-> [k \in 1..2 |->
            [Space(InstanceId(ids[k], f), HandSpec(ids[k]), f, VerticalPriority)
                EXCEPT !.position = pos[k][f]]]]]

\* the stalks: VerticalStalk(...), stalk.place(x, y)
HandStalks(ids, spos) ==
    [k \in 1..2 |->
        [VerticalStalk(ids[k], "stair", HandSpec(ids[k]), <<0, 1>>)
            EXCEPT !.position = spos[k]]]

Ghost == <<"ghost">>

\* the constraints evaluated: those build_sheaf_constraints makes, and
\* constraints on the first instance and on an id no space carries
HandConstraints ==
    LET built == BuildSheafConstraints(patches, stalks, building)
        first == patches[0].spaces[1].id
        second == patches[0].spaces[2].id
    IN  {built[i] : i \in 1..Len(built)}
        \cup {AdjacencyConstraint(first, second, 3 * U),
              AdjacencyConstraint(first, Ghost, 3 * U),
              NonOverlapConstraint(Ghost, first),
              BoundaryConstraint(Ghost, patches[0].domain),
              MinimumDistanceConstraint(first, Ghost, 10 * U),
              AlignmentConstraint(Ghost, <<Ghost, first>>)}

SheafInit ==
    /\ pc = "sheaf"
    /\ building = HandBuilding
    /\ config = DefaultConfig
    /\ \E ids \in StalkIdPairs :
       \E pos \in [1..2 -> [{0} -> GroundPositions]] :
       \E upper \in [1..2 -> UpperPositions] :
       \E spos \in [1..2 -> StalkPositionChoices] :
          /\ patches = HandPatches(ids, [k \in 1..2 |->
                                            [f \in 0..1 |-> IF f = 0 THEN pos[k][0]
                                                            ELSE upper[k]]])
          /\ stalks = HandStalks(ids, spos)
    /\ floor_pos = 0
    /\ processed = {}
    /\ result = NoResult

\* sheaf.propagate_stalk_positions(), any number of times
CallPropagate ==
    /\ pc \in {"sheaf", "propagated"}
    /\ patches' = PropagateStalkPositions(patches, stalks)
    /\ pc' = "propagated"
    /\ UNCHANGED <<building, config, stalks, floor_pos, processed, result>>

\* sheaf.compute_cohomology()
CallComputeCohomology ==
    /\ pc \in {"sheaf", "propagated"}
    /\ result' = [returned |-> TRUE, value |-> ComputeCohomology(patches, stalks)]
    /\ pc' = "cohomology"
    /\ UNCHANGED <<building, config, patches, stalks, floor_pos, processed>>

\* constraint.evaluate({s.id: s for s in sheaf.get_all_spaces()})
CallEvaluate ==
    /\ pc \in {"sheaf", "propagated"}
    /\ \E c \in HandConstraints :
          result' = [returned |-> TRUE, constraint |-> c,
                     raised |-> Evaluate(c, GetAllSpaces(patches)).raised,
                     value |-> Evaluate(c, GetAllSpaces(patches)).value]
    /\ pc' = "evaluated"
    /\ UNCHANGED <<building, config, patches, stalks, floor_pos, processed>>

SheafNext == CallPropagate \/ CallComputeCohomology \/ CallEvaluate

SheafSpec == SheafInit /\ [][SheafNext]_vars

(***************************************************************************)
(* Properties of the sheaf operations and of constraint evaluation         *)
(***************************************************************************)
\* C7: propagate_stalk_positions is idempotent: in the state a call leaves,
\* a second call changes no Space (position and rotation included).
C7_PropagateIdempotent ==
    pc = "propagated" => PropagateStalkPositions(patches, stalks) = patches

\* a call has propagated a placed stalk to an instance on each floor
C7_Witness ==
    /\ pc = "propagated"
    /\ \E k \in 1..Len(stalks) :
          /\ stalks[k].position.placed
          /\ \A f \in DOMAIN patches : \E i \in 1..Len(patches[f].spaces) :
                /\ patches[f].spaces[i].id = InstanceId(stalks[k].id, f)
                /\ patches[f].spaces[i].position = stalks[k].position

AllInside ==
    \A f \in DOMAIN patches : \A i \in PlacedOn(f) :
        Overflow(Geometry(patches[f].spaces[i]), BoundingBox(patches[f].domain)) = 0

\* the same-floor pairs of placed spaces that overlap
OverlappingPairs ==
    {t \in UNION {{<<f, i, j>> : i, j \in PlacedOn(f)} : f \in DOMAIN patches} :
        /\ t[2] < t[3]
        /\ IntersectionArea(Geometry(patches[t[1]].spaces[t[2]]),
                            Geometry(patches[t[1]].spaces[t[3]])) > 0}

\* the placed per-floor instances of each stalk all have the same coordinates
InstancesIdentical ==
    \A k \in 1..Len(stalks) :
        \A f, g \in DOMAIN patches :
            \A i \in PlacedOn(f), j \in PlacedOn(g) :
                (/\ patches[f].spaces[i].id = InstanceId(stalks[k].id, f)
                 /\ patches[g].spaces[j].id = InstanceId(stalks[k].id, g))
                => patches[f].spaces[i].position = patches[g].spaces[j].position

\* C8: compute_cohomology returns 0 for a sheaf whose placed spaces are all
\* inside their floor, pairwise non-overlapping, with identical coordinates
\* for the instances of each stalk; and returns A when exactly one pair of
\* same-floor spaces overlaps, with intersection area A.
C8_CohomologyExact ==
    (pc = "cohomology" /\ AllInside /\ InstancesIdentical) =>
        /\ OverlappingPairs = {} => result.value = 0
        /\ \A t \in OverlappingPairs :
              OverlappingPairs = {t} =>
                  result.value = IntersectionArea(Geometry(patches[t[1]].spaces[t[2]]),
                                                  Geometry(patches[t[1]].spaces[t[3]]))

\* the spaces a constraint evaluation is given, by id
SpacesWithId(id) ==
    {i \in 1..Len(GetAllSpaces(patches)) : GetAllSpaces(patches)[i].id = id}
Missing(id) == SpacesWithId(id) = {}
Unplaced(id) == \E i \in SpacesWithId(id) : ~IsPlaced(GetAllSpaces(patches)[i])

\* C9: evaluating a constraint never raises and returns a value >= 0;
\* Boundary, NonOverlap and MinimumDistance return 0 when a referenced space
\* is missing or unplaced; Alignment returns 0 when fewer than two referenced
\* instances are placed; Adjacency returns min_contact when a referenced
\* space is absent, and 0 when both are present and one is unplaced.
C9_EvaluateTotal ==
    pc = "evaluated" =>
        LET c == result.constraint
        IN  /\ ~result.raised
            /\ result.value >= 0
            /\ (c.kind = "BoundaryConstraint"
                /\ (Missing(c.space_id) \/ Unplaced(c.space_id)))
               => result.value = 0
            /\ (c.kind \in {"NonOverlapConstraint", "MinimumDistanceConstraint"}
                /\ (\/ Missing(c.space_a_id) \/ Unplaced(c.space_a_id)
                    \/ Missing(c.space_b_id) \/ Unplaced(c.space_b_id)))
               => result.value = 0
            /\ (c.kind = "AlignmentConstraint"
                /\ Cardinality({k \in 1..Len(c.space_ids) :
                        ~Missing(c.space_ids[k]) /\ ~Unplaced(c.space_ids[k])}) < 2)
               => result.value = 0
            /\ (c.kind = "AdjacencyConstraint"
                /\ (Missing(c.space_a_id) \/ Missing(c.space_b_id)))
               => result.value = LengthViolation(c.min_contact_ft)
            /\ (c.kind = "AdjacencyConstraint"
                /\ ~Missing(c.space_a_id) /\ ~Missing(c.space_b_id)
                /\ (Unplaced(c.space_a_id) \/ Unplaced(c.space_b_id)))
               => result.value = 0

\* an adjacency constraint was evaluated with one of its spaces absent
C9_Witness ==
    /\ pc = "evaluated"
    /\ result.constraint.kind = "AdjacencyConstraint"
    /\ Missing(result.constraint.space_b_id)
    /\ result.value > 0

====
